---- MODULE Spec2Model ----
(***************************************************************************)
(* Tiered content resolution and caching of the SDSA application:          *)
(*   CacheService          src/src/services/cacheService.ts                *)
(*   KnowledgeService      src/src/services/knowledgeService.ts            *)
(*   QuestionnaireService  src/unnamed/part_001                            *)
(* and the zustand stores of src/unnamed/part_004 and src/unnamed/part_005.*)
(* JavaScript strings that take part in key construction are sequences of  *)
(* one-character strings, so that concatenation and startsWith are         *)
(* computed and not assumed.  Time is Date.now() in milliseconds.          *)
(***************************************************************************)
EXTENDS Integers, Sequences, FiniteSets, TLC

VARIABLES
  now,          \* Date.now()
  ticks,        \* number of clock advances so far (bounded by MaxTicks)
  storage,      \* AsyncStorage: key -> stored text, DOMAIN = keys present
  res,          \* outcome of the last direct CacheService call
  memoryCache,  \* KnowledgeService.memoryCache: blockId -> KnowledgeBlock
  calls,        \* the resolve calls of the services, one record per slot
  started,      \* number of resolve calls started so far (bounded by MaxCalls)
  cmp,          \* the arguments and the result of a call of isNewerVersion
  retry,        \* a call of fetchWithRetry: loop index, attempts, delays, outcome
  update,       \* the update service: where initialize, the timer,
                \* checkForUpdates and downloadUpdate stand
  stores        \* the zustand store in use: the state of useQuestionnaireStore
                \* or of useChatHistoryStore

vars == <<now, ticks, storage, res, memoryCache, calls, started, cmp, retry, update, stores>>

-----------------------------------------------------------------------------
(* Bounds *)

MaxTicks == 3
MaxLaunches == 2

-----------------------------------------------------------------------------
(* JavaScript values *)

Null == [null |-> TRUE]

\* Nothing is in progress in the version comparison, in fetchWithRetry and in
\* the update service.
NoCompare == [op |-> "none"]
NoRetry == [pc |-> "idle"]
NoUpdate == [pc |-> "off"]
NoStores == [pc |-> "unused"]

HOUR_MS == 60 * 60 * 1000

StartsWith(s, prefix) ==
  /\ Len(s) >= Len(prefix)
  /\ SubSeq(s, 1, Len(prefix)) = prefix

\* JSON.stringify of a value the services store: the text of that value.
JSON_stringify(value) == [text |-> "json", value |-> value]

\* A stored text that is not JSON (test: 'invalid json').
InvalidJson == [text |-> "invalid json"]

\* JSON.parse: the value of a JSON text, SyntaxError on any other text.
JSON_parse(text) ==
  IF text.text = "json"
    THEN [threw |-> FALSE, value |-> text.value]
    ELSE [threw |-> TRUE, value |-> Null]

-----------------------------------------------------------------------------
(* AsyncStorage: the shared key/value store *)

AsyncStorage_getItem(store, k) ==
  IF k \in DOMAIN store THEN store[k] ELSE Null

AsyncStorage_setItem(store, k, text) ==
  [x \in (DOMAIN store) \cup {k} |-> IF x = k THEN text ELSE store[x]]

AsyncStorage_removeItem(store, k) ==
  [x \in (DOMAIN store) \ {k} |-> store[x]]

AsyncStorage_getAllKeys(store) == DOMAIN store

AsyncStorage_multiRemove(store, ks) ==
  [x \in (DOMAIN store) \ ks |-> store[x]]

EmptyStorage == [x \in {} |-> Null]

-----------------------------------------------------------------------------
(* CacheService (src/src/services/cacheService.ts) *)

CACHE_PREFIX == <<"@","s","d","s","a","_","c","a","c","h","e","_">>
JOURNEY_KEY == <<"@","s","d","s","a","_","j","o","u","r","n","e","y">>
CACHE_EXPIRY_HOURS == 24

\* The constants of the same kind of QuestionnaireService (src/unnamed/part_001),
\* whose CACHE_PREFIX is named QS_CACHE_PREFIX here.
QS_CACHE_PREFIX == <<"q","u","e","s","t","i","o","n","n","a","i","r","e","_","c","a","c","h","e","_">>
CATEGORIES_CACHE_KEY == <<"c","a","t","e","g","o","r","i","e","s","_","c","a","c","h","e">>

CacheItem(data, timestamp, expiryHours) ==
  [data |-> data, timestamp |-> timestamp, expiryHours |-> expiryHours]

\* Every service method returns [ret, threw, store, io]: the value its
\* promise resolves with, whether it rejected instead, the store it leaves,
\* and the AsyncStorage calls it made, in order, each with its outcome.
\* setOk, getOk, removeOk, keysOk, multiOk say whether the AsyncStorage call
\* of that name resolves (TRUE) or rejects (FALSE).

IO(fn, arg, ok) == [fn |-> fn, arg |-> arg, ok |-> ok]

Resolved(value, store, io) == [ret |-> value, threw |-> FALSE, store |-> store, io |-> io]
Rejected(store, io) == [ret |-> Null, threw |-> TRUE, store |-> store, io |-> io]

\* try { body } catch (error) { console.error(...); return value }
Catch(body, value) ==
  IF body.threw THEN Resolved(value, body.store, body.io) ELSE body

CacheService_set(store, key, data, expiryHours, t, setOk) ==
  LET cacheItem  == CacheItem(data, t, expiryHours)
      serialized == JSON_stringify(cacheItem)
      k          == CACHE_PREFIX \o key
      io         == <<IO("setItem", k, setOk)>>
      body == IF setOk
                THEN Resolved(Null, AsyncStorage_setItem(store, k, serialized), io)
                ELSE Rejected(store, io)
  IN Catch(body, Null)

CacheService_remove(store, key, removeOk) ==
  LET k    == CACHE_PREFIX \o key
      io   == <<IO("removeItem", k, removeOk)>>
      body == IF removeOk
                THEN Resolved(Null, AsyncStorage_removeItem(store, k), io)
                ELSE Rejected(store, io)
  IN Catch(body, Null)

\* Mutant: an entry exactly as old as its TTL counts as expired.
CacheService_isExpired_atTtl(cacheItem, t) ==
  LET expiryMs == cacheItem.expiryHours * 60 * 60 * 1000
  IN t - cacheItem.timestamp >= expiryMs

CacheService_isExpired(cacheItem, t) ==
  LET expiryMs == cacheItem.expiryHours * 60 * 60 * 1000
  IN t - cacheItem.timestamp > expiryMs

\* Mutant: get without its try/catch.
CacheService_get_uncaught(store, key, t, getOk, removeOk) ==
  LET k          == CACHE_PREFIX \o key
      serialized == AsyncStorage_getItem(store, k)
      io         == <<IO("getItem", k, getOk)>>
  IN IF ~getOk THEN Rejected(store, io)
     ELSE IF serialized = Null THEN Resolved(Null, store, io)
     ELSE LET parsed == JSON_parse(serialized)
          IN IF parsed.threw THEN Rejected(store, io)
             ELSE IF CacheService_isExpired(parsed.value, t)
               THEN LET removed == CacheService_remove(store, key, removeOk)
                    IN Resolved(Null, removed.store, io \o removed.io)
               ELSE Resolved(parsed.value.data, store, io)

CacheService_get(store, key, t, getOk, removeOk) ==
  LET k          == CACHE_PREFIX \o key
      serialized == AsyncStorage_getItem(store, k)
      io         == <<IO("getItem", k, getOk)>>
      body ==
        IF ~getOk THEN Rejected(store, io)
        ELSE IF serialized = Null THEN Resolved(Null, store, io)
        ELSE LET parsed == JSON_parse(serialized)
             IN IF parsed.threw THEN Rejected(store, io)
                ELSE IF CacheService_isExpired(parsed.value, t)
                  THEN LET removed == CacheService_remove(store, key, removeOk)
                       IN IF removed.threw
                            THEN Rejected(removed.store, io \o removed.io)
                            ELSE Resolved(Null, removed.store, io \o removed.io)
                  ELSE Resolved(parsed.value.data, store, io)
  IN Catch(body, Null)

\* Mutant: every key of the store is removed, as AsyncStorage.clear would.
CacheService_clearAll_allKeys(store, keysOk, multiOk) ==
  LET keys == AsyncStorage_getAllKeys(store)
      io1  == <<IO("getAllKeys", <<>>, keysOk)>>
      io2  == io1 \o <<IO("multiRemove", keys, multiOk)>>
      body == IF ~keysOk THEN Rejected(store, io1)
              ELSE IF ~multiOk THEN Rejected(store, io2)
              ELSE Resolved(Null, AsyncStorage_multiRemove(store, keys), io2)
  IN Catch(body, Null)

CacheService_clearAll(store, keysOk, multiOk) ==
  LET keys      == AsyncStorage_getAllKeys(store)
      cacheKeys == {key \in keys : StartsWith(key, CACHE_PREFIX)}
      io1       == <<IO("getAllKeys", <<>>, keysOk)>>
      io2       == io1 \o <<IO("multiRemove", cacheKeys, multiOk)>>
      body == IF ~keysOk THEN Rejected(store, io1)
              ELSE IF ~multiOk THEN Rejected(store, io2)
              ELSE Resolved(Null, AsyncStorage_multiRemove(store, cacheKeys), io2)
  IN Catch(body, Null)

CacheService_saveJourney(store, journey, setOk) ==
  LET io   == <<IO("setItem", JOURNEY_KEY, setOk)>>
      body == IF setOk
                THEN Resolved(Null, AsyncStorage_setItem(store, JOURNEY_KEY, JSON_stringify(journey)), io)
                ELSE Rejected(store, io)
  IN Catch(body, Null)

CacheService_clearJourney(store, removeOk) ==
  LET io   == <<IO("removeItem", JOURNEY_KEY, removeOk)>>
      body == IF removeOk
                THEN Resolved(Null, AsyncStorage_removeItem(store, JOURNEY_KEY), io)
                ELSE Rejected(store, io)
  IN Catch(body, Null)

KnowledgeBlockKey(blockId) ==
  <<"k","n","o","w","l","e","d","g","e","_","b","l","o","c","k","_">> \o blockId

KNOWLEDGE_BLOCK_EXPIRY_HOURS == 7 * 24

CacheService_cacheKnowledgeBlock(store, blockId, block, t, setOk) ==
  CacheService_set(store, KnowledgeBlockKey(blockId), block,
                   KNOWLEDGE_BLOCK_EXPIRY_HOURS, t, setOk)

CacheService_getCachedKnowledgeBlock(store, blockId, t, getOk, removeOk) ==
  CacheService_get(store, KnowledgeBlockKey(blockId), t, getOk, removeOk)

-----------------------------------------------------------------------------
(* The clock and the faults of the environment *)

\* Date.now() moves between calls; the steps make an entry 23, 24 and 25
\* hours old within MaxTicks advances.
TickSteps == {1 * HOUR_MS, 23 * HOUR_MS}

\* The clock, the faults of the store and the clearing operations act between
\* the calls of the resolvers, not in the middle of one.
NoneSettled == \A p \in DOMAIN calls : calls[p].pc = "idle"

Tick ==
  /\ ticks < MaxTicks
  /\ NoneSettled
  /\ \E d \in TickSteps : now' = now + d
  /\ ticks' = ticks + 1
  /\ UNCHANGED <<stores, cmp, retry, update, storage, res, memoryCache, calls, started>>

\* The text stored under an existing key becomes unparsable.
Corrupt ==
  /\ NoneSettled
  /\ \E k \in DOMAIN storage :
        /\ StartsWith(k, CACHE_PREFIX) \/ StartsWith(k, QS_CACHE_PREFIX)
             \/ k = CATEGORIES_CACHE_KEY
        /\ storage[k] # InvalidJson
        /\ storage' = [storage EXCEPT ![k] = InvalidJson]
  /\ UNCHANGED <<stores, cmp, retry, update, now, ticks, res, memoryCache, calls, started>>

-----------------------------------------------------------------------------
(* Direct calls of CacheService *)

TestKey == <<"t","e","s","t","-","k","e","y">>
TestData == {[test |-> "data"], [test |-> "other"]}
BlockIds == {<<"b","1">>}
KnowledgeBlock(blockId, title) == [id |-> blockId, title |-> title]
RemoteTitles == {"Block r1", "Block r2"}
Journey == [completed |-> FALSE]

\* res: the last direct call and what it did.
Outcome(op, key, r) ==
  [op |-> op, key |-> key, ret |-> r.ret, threw |-> r.threw, io |-> r.io]

NoCall ==
  [op |-> "none", key |-> <<>>, ret |-> Null, threw |-> FALSE, io |-> <<>>]

set(key, data) ==
  /\ \E setOk \in BOOLEAN :
       LET r == CacheService_set(storage, key, data, CACHE_EXPIRY_HOURS, now, setOk)
       IN /\ storage' = r.store
          /\ res' = Outcome("set", key, r)
  /\ UNCHANGED <<stores, cmp, retry, update, now, ticks, memoryCache, calls, started>>

cacheKnowledgeBlock(blockId, block) ==
  /\ \E setOk \in BOOLEAN :
       LET r == CacheService_cacheKnowledgeBlock(storage, blockId, block, now, setOk)
       IN /\ storage' = r.store
          /\ res' = Outcome("set", KnowledgeBlockKey(blockId), r)
  /\ UNCHANGED <<stores, cmp, retry, update, now, ticks, memoryCache, calls, started>>

get(key) ==
  /\ \E getOk \in BOOLEAN, removeOk \in BOOLEAN :
       LET r == CacheService_get(storage, key, now, getOk, removeOk)
       IN /\ storage' = r.store
          /\ res' = Outcome("get", key, r)
  /\ UNCHANGED <<stores, cmp, retry, update, now, ticks, memoryCache, calls, started>>

remove(key) ==
  /\ \E removeOk \in BOOLEAN :
       LET r == CacheService_remove(storage, key, removeOk)
       IN /\ storage' = r.store
          /\ res' = Outcome("remove", key, r)
  /\ UNCHANGED <<stores, cmp, retry, update, now, ticks, memoryCache, calls, started>>

clearAll ==
  /\ NoneSettled
  /\ \E keysOk \in BOOLEAN, multiOk \in BOOLEAN :
       LET r == CacheService_clearAll(storage, keysOk, multiOk)
       IN /\ storage' = r.store
          /\ res' = Outcome("clearAll", <<>>, r)
  /\ UNCHANGED <<stores, cmp, retry, update, now, ticks, memoryCache, calls, started>>

saveJourney ==
  /\ \E setOk \in BOOLEAN :
       LET r == CacheService_saveJourney(storage, Journey, setOk)
       IN /\ storage' = r.store
          /\ res' = Outcome("saveJourney", JOURNEY_KEY, r)
  /\ UNCHANGED <<stores, cmp, retry, update, now, ticks, memoryCache, calls, started>>

clearJourney ==
  /\ \E removeOk \in BOOLEAN :
       LET r == CacheService_clearJourney(storage, removeOk)
       IN /\ storage' = r.store
          /\ res' = Outcome("clearJourney", JOURNEY_KEY, r)
  /\ UNCHANGED <<stores, cmp, retry, update, now, ticks, memoryCache, calls, started>>

CacheKeys == {TestKey} \cup {KnowledgeBlockKey(b) : b \in BlockIds}

InitCache ==
  /\ now = 0
  /\ ticks = 0
  /\ storage = EmptyStorage
  /\ res = NoCall
  /\ memoryCache = EmptyStorage
  /\ calls = <<>>
  /\ started = 0
  /\ cmp = NoCompare
  /\ retry = NoRetry
  /\ update = NoUpdate
  /\ stores = NoStores

NextCache ==
  \/ \E data \in TestData : set(TestKey, data)
  \/ \E blockId \in BlockIds, title \in RemoteTitles :
        cacheKnowledgeBlock(blockId, KnowledgeBlock(blockId, title))
  \/ \E key \in CacheKeys : get(key)
  \/ \E key \in CacheKeys : remove(key)
  \/ clearAll
  \/ saveJourney
  \/ clearJourney
  \/ Tick
  \/ Corrupt

SpecCache == InitCache /\ [][NextCache]_vars

-----------------------------------------------------------------------------
(* Content, the network and the bundled assets *)

MaxCalls == 2

cicd == <<"c","i","c","d">>
cicd_pipeline == <<"c","i","c","d","-","p","i","p","e","l","i","n","e">>
e2e == <<"e","2","e">>
e2e_testing == <<"e","2","e","-","t","e","s","t","i","n","g">>
\* A category path and a questionnaire id nothing is known about.
testing == <<"t","e","s","t","i","n","g">>
non_existent == <<"n","o","n","-","e","x","i","s","t","e","n","t">>

\* A questionnaire: its id and the revision of its content.  Revision 1 is
\* the content packaged with the application, revision 2 a later one that
\* only the remote repository has.
Questionnaire(id, rev) == [id |-> id, rev |-> rev]
RemoteRevs == {1, 2}
BundledRev == 1

\* Category lists: the one of getMockCategories, the one packaged with the
\* application, and a later one that only the remote repository has.
MockCategories == [list |-> <<"cicd", "e2e">>, names |-> "getMockCategories"]
BundledCategories == [list |-> <<"cicd", "e2e">>, names |-> "categories.json r1"]
NewerCategories == [list |-> <<"cicd", "e2e", "testing">>, names |-> "categories.json r2"]
CategoriesData(categories) == [categories |-> categories]
List(items) == [list |-> items]

\* What fetch(url) followed by response.json() / response.text() and the
\* parse of the body can come to, for a resource whose well-formed bodies
\* are `bodies`: fetch rejects, a non-2xx status, a body that does not
\* parse, or a parsed payload.
Response(kind, body) == [kind |-> kind, body |-> body]
Responses(bodies) ==
  {Response("throw", Null), Response("status", Null), Response("unparsable", Null)}
    \cup {Response("ok", b) : b \in bodies}

-----------------------------------------------------------------------------
(* QuestionnaireService (src/unnamed/part_001) *)

CACHE_DURATION == 24 * 60 * 60 * 1000
localFallback == TRUE

categoryQuestionnaires(categoryPath) ==
  IF categoryPath = cicd THEN <<cicd_pipeline>>
  ELSE IF categoryPath = e2e THEN <<e2e_testing>>
  ELSE <<>>

getLocalQuestionnaire(categoryPath, questionnaireId) ==
  LET key == categoryPath \o <<"/">> \o questionnaireId
  IN IF key = cicd \o <<"/">> \o cicd_pipeline THEN Questionnaire(cicd_pipeline, BundledRev)
     ELSE IF key = e2e \o <<"/">> \o e2e_testing THEN Questionnaire(e2e_testing, BundledRev)
     ELSE Null

getMockCategories == MockCategories

getCachedData(store, key, t, getOk, removeOk) ==
  LET cached == AsyncStorage_getItem(store, key)
      io     == <<IO("getItem", key, getOk)>>
      body ==
        IF ~getOk THEN Rejected(store, io)
        ELSE IF cached = Null THEN Resolved(Null, store, io)
        ELSE LET parsed == JSON_parse(cached)
             IN IF parsed.threw THEN Rejected(store, io)
                ELSE IF t - parsed.value.timestamp > CACHE_DURATION
                  THEN LET io2 == io \o <<IO("removeItem", key, removeOk)>>
                       IN IF removeOk
                            THEN Resolved(Null, AsyncStorage_removeItem(store, key), io2)
                            ELSE Rejected(store, io2)
                  ELSE Resolved(parsed.value.data, store, io)
  IN Catch(body, Null)

\* Mutant: setItem is reported as done and nothing is stored.
setCachedData_noWrite(store, key, data, t, setOk) ==
  Resolved(Null, store, <<IO("setItem", key, setOk)>>)

\* Mutant: an entry that is already there is kept.
setCachedData_keepFirst(store, key, data, t, setOk) ==
  LET cacheData == [data |-> data, timestamp |-> t]
      io        == <<IO("setItem", key, setOk)>>
  IN IF setOk /\ key \notin DOMAIN store
       THEN Resolved(Null, AsyncStorage_setItem(store, key, JSON_stringify(cacheData)), io)
       ELSE Resolved(Null, store, io)

setCachedData(store, key, data, t, setOk) ==
  LET cacheData == [data |-> data, timestamp |-> t]
      io        == <<IO("setItem", key, setOk)>>
      body == IF setOk
                THEN Resolved(Null, AsyncStorage_setItem(store, key, JSON_stringify(cacheData)), io)
                ELSE Rejected(store, io)
  IN Catch(body, Null)

QuestionnaireService_clearCache(store, keysOk, multiOk) ==
  LET keys      == AsyncStorage_getAllKeys(store)
      cacheKeys == {key \in keys :
                      StartsWith(key, QS_CACHE_PREFIX) \/ key = CATEGORIES_CACHE_KEY}
      io1       == <<IO("getAllKeys", <<>>, keysOk)>>
      io2       == io1 \o <<IO("multiRemove", cacheKeys, multiOk)>>
      body == IF ~keysOk THEN Rejected(store, io1)
              ELSE IF ~multiOk THEN Rejected(store, io2)
              ELSE Resolved(Null, AsyncStorage_multiRemove(store, cacheKeys), io2)
  IN Catch(body, Null)

\* The cache key each method builds.
categoriesKey == CATEGORIES_CACHE_KEY
questionnairesKey(categoryPath) == QS_CACHE_PREFIX \o categoryPath
questionnaireKey(categoryPath, questionnaireId) ==
  QS_CACHE_PREFIX \o categoryPath \o <<"_">> \o questionnaireId

-----------------------------------------------------------------------------
(* Resolve calls *)

\* The promise of a call: pending, fulfilled with a value, or rejected.
\* A fulfilled promise carries the value the method returns and nothing else.
Pending == [state |-> "pending"]
Fulfilled(value) == [state |-> "fulfilled", value |-> value]
RejectedPromise == [state |-> "rejected"]

Idle == [pc |-> "idle"]

\* One running call: the method and its arguments, where it stands (pc), its
\* locals (data: the fetched payload; i, list: the loop of getQuestionnaires)
\* and its promise (result).  The other fields record what the call did:
\* trace = the tiers it consulted in order, each with hit or miss and why;
\* tier = the tier that produced the value; io = its AsyncStorage calls;
\* fetches = its fetch() calls; at = Date.now() when it settled; prev = the
\* tier, value and time of the call of the same method and arguments that
\* settled right before this one started (Null when there is none).
NewCall(op, categoryPath, id, prev) ==
  [op |-> op, categoryPath |-> categoryPath, id |-> id, pc |-> "cache",
   data |-> Null, i |-> 1, list |-> <<>>, from |-> <<>>, result |-> Pending,
   trace |-> <<>>, tier |-> "none", io |-> <<>>, fetches |-> 0,
   at |-> 0, prev |-> prev]

Consult(c, tier, hit, why) ==
  [c EXCEPT !.trace = @ \o <<[tier |-> tier, hit |-> hit, why |-> why]>>]

Did(c, io) == [c EXCEPT !.io = @ \o io]

Settle(c, value, tier, t) ==
  [c EXCEPT !.pc = "done", !.result = Fulfilled(value), !.tier = tier, !.at = t]

Reject(c, t) ==
  [c EXCEPT !.pc = "done", !.result = RejectedPromise, !.at = t]

\* Why a read of the persistent tier missed.
MissReason(store, key, getOk) ==
  IF ~getOk THEN "rejected"
  ELSE IF key \notin DOMAIN store THEN "empty"
  ELSE IF store[key].text # "json" THEN "unparsable"
  ELSE "expired"

Targets ==
  {[op |-> "getCategories", categoryPath |-> <<>>, id |-> <<>>],
   [op |-> "getQuestionnaires", categoryPath |-> cicd, id |-> <<>>],
   [op |-> "getQuestionnaires", categoryPath |-> testing, id |-> <<>>],
   [op |-> "getQuestionnaire", categoryPath |-> cicd, id |-> cicd_pipeline],
   [op |-> "getQuestionnaire", categoryPath |-> testing, id |-> non_existent]}
  \cup {[op |-> "fetchKnowledgeBlock", categoryPath |-> <<>>, id |-> b] : b \in BlockIds}

PrevOf(c, tg) ==
  IF /\ c.pc = "done"
     /\ c.op = tg.op /\ c.categoryPath = tg.categoryPath /\ c.id = tg.id
     /\ c.result.state = "fulfilled"
    THEN [tier |-> c.tier, value |-> c.result.value, at |-> c.at]
    ELSE Null

\* A caller invokes a method.  fetchKnowledgeBlock looks into memoryCache at
\* once, before its first await.
CallOf(p, targets) ==
  /\ calls[p].pc \in {"idle", "done"}
  /\ started < MaxCalls
  /\ started' = started + 1
  /\ res' = NoCall
  /\ \E tg \in targets :
       LET c == NewCall(tg.op, tg.categoryPath, tg.id, PrevOf(calls[p], tg))
       IN calls' = [calls EXCEPT ![p] =
            IF tg.op = "fetchKnowledgeBlock"
              THEN IF tg.id \in DOMAIN memoryCache
                     THEN Settle(Consult(c, "memory", TRUE, "has"),
                                 memoryCache[tg.id], "memory", now)
                     ELSE Consult(c, "memory", FALSE, "empty")
              ELSE c]
  /\ UNCHANGED <<stores, cmp, retry, update, now, ticks, storage, memoryCache>>

Call(p) == CallOf(p, Targets)

\* The caller takes the settled result.
Return(p) ==
  /\ calls[p].pc = "done"
  /\ calls' = [calls EXCEPT ![p] = Idle]
  /\ UNCHANGED <<stores, cmp, retry, update, now, ticks, storage, res, memoryCache, started>>

-----------------------------------------------------------------------------
(* QuestionnaireService.getCategories *)

CategoriesBodies == {CategoriesData(BundledCategories), CategoriesData(NewerCategories)}

\* Mutant: the outer catch rethrows.
getCategories_mock_rethrow(c, t) == Reject(c, t)

\* catch (error) of the whole method: return this.getMockCategories()
getCategories_mock(c, t) ==
  Settle(Consult(c, "mock", TRUE, "built-in"), getMockCategories, "mock", t)

\* "Fallback to local assets": require(categories.json) gives the packaged
\* list, or throws when the asset cannot be loaded (bundledOk = FALSE).
getCategories_local(c, bundledOk, t) ==
  IF localFallback
    THEN IF bundledOk
           THEN Settle(Consult(c, "bundled", TRUE, "present"),
                       CategoriesData(BundledCategories).categories, "bundled", t)
           ELSE getCategories_mock(Consult(c, "bundled", FALSE, "error"), t)
    ELSE getCategories_mock(c, t)

getCategories_getCachedData(p) ==
  /\ calls[p].pc = "cache" /\ calls[p].op = "getCategories"
  /\ \E getOk \in BOOLEAN, removeOk \in BOOLEAN :
       LET r  == getCachedData(storage, CATEGORIES_CACHE_KEY, now, getOk, removeOk)
           c  == Did(calls[p], r.io)
           why == MissReason(storage, CATEGORIES_CACHE_KEY, getOk)
       IN /\ storage' = r.store
          /\ calls' = [calls EXCEPT ![p] =
               IF r.threw
                 THEN getCategories_mock(Consult(c, "persistent", FALSE, "threw"), now)
               ELSE IF r.ret # Null
                 THEN Settle(Consult(c, "persistent", TRUE, "fresh"),
                             r.ret.categories, "persistent", now)
               ELSE [Consult(c, "persistent", FALSE, why) EXCEPT !.pc = "fetch"]]
  /\ UNCHANGED <<stores, cmp, retry, update, now, ticks, res, memoryCache, started>>

getCategories_fetch(p) ==
  /\ calls[p].pc = "fetch" /\ calls[p].op = "getCategories"
  /\ \E response \in Responses(CategoriesBodies), bundledOk \in BOOLEAN :
       LET c == [calls[p] EXCEPT !.fetches = @ + 1]
       IN calls' = [calls EXCEPT ![p] =
            IF response.kind = "ok"
              THEN [Consult(c, "remote", TRUE, "ok") EXCEPT
                      !.pc = "store", !.data = response.body]
              ELSE getCategories_local(Consult(c, "remote", FALSE, response.kind),
                                       bundledOk, now)]
  /\ UNCHANGED <<stores, cmp, retry, update, now, ticks, storage, res, memoryCache, started>>

getCategories_setCachedData(p) ==
  /\ calls[p].pc = "store" /\ calls[p].op = "getCategories"
  /\ \E setOk \in BOOLEAN, bundledOk \in BOOLEAN :
       LET r == setCachedData(storage, CATEGORIES_CACHE_KEY, calls[p].data, now, setOk)
           c == Did(calls[p], r.io)
       IN /\ storage' = r.store
          /\ calls' = [calls EXCEPT ![p] =
               IF r.threw
                 THEN \* inside the inner try: caught, on to the local assets
                      getCategories_local(c, bundledOk, now)
                 ELSE Settle(c, c.data.categories, "remote", now)]
  /\ UNCHANGED <<stores, cmp, retry, update, now, ticks, res, memoryCache, started>>

-----------------------------------------------------------------------------
(* QuestionnaireService.getQuestionnaire *)

QuestionnaireBodies(id) == {Questionnaire(id, rev) : rev \in RemoteRevs}

\* Mutant: after a failed fetch the method returns null without looking at the
\* local assets.
getQuestionnaire_local_skipBundled(c, bundledOk, t) ==
  Settle(Consult(c, "mock", TRUE, "built-in"), Null, "mock", t)

\* "Fallback to local assets": getLocalQuestionnaire, whose own try/catch
\* turns a failing lookup (bundledOk = FALSE) into null.
getQuestionnaire_local(c, bundledOk, t) ==
  IF localFallback
    THEN LET local == IF bundledOk THEN getLocalQuestionnaire(c.categoryPath, c.id)
                                   ELSE Null
             why   == IF bundledOk THEN "absent" ELSE "error"
         IN IF local # Null
              THEN Settle(Consult(c, "bundled", TRUE, "present"), local, "bundled", t)
              ELSE Settle(Consult(Consult(c, "bundled", FALSE, why),
                                  "mock", TRUE, "built-in"), Null, "mock", t)
    ELSE Settle(Consult(c, "mock", TRUE, "built-in"), Null, "mock", t)

getQuestionnaire_getCachedData(p) ==
  /\ calls[p].pc = "cache" /\ calls[p].op = "getQuestionnaire"
  /\ \E getOk \in BOOLEAN, removeOk \in BOOLEAN :
       LET cacheKey == questionnaireKey(calls[p].categoryPath, calls[p].id)
           r   == getCachedData(storage, cacheKey, now, getOk, removeOk)
           c   == Did(calls[p], r.io)
           why == MissReason(storage, cacheKey, getOk)
       IN /\ storage' = r.store
          /\ calls' = [calls EXCEPT ![p] =
               IF r.threw
                 THEN \* catch (error) of the whole method: return null
                      Settle(Consult(Consult(c, "persistent", FALSE, "threw"),
                                     "mock", TRUE, "built-in"), Null, "mock", now)
               ELSE IF r.ret # Null
                 THEN Settle(Consult(c, "persistent", TRUE, "fresh"),
                             r.ret, "persistent", now)
               ELSE [Consult(c, "persistent", FALSE, why) EXCEPT !.pc = "fetch"]]
  /\ UNCHANGED <<stores, cmp, retry, update, now, ticks, res, memoryCache, started>>

getQuestionnaire_fetch(p) ==
  /\ calls[p].pc = "fetch" /\ calls[p].op = "getQuestionnaire"
  /\ \E response \in Responses(QuestionnaireBodies(calls[p].id)), bundledOk \in BOOLEAN :
       LET c == [calls[p] EXCEPT !.fetches = @ + 1]
       IN calls' = [calls EXCEPT ![p] =
            IF response.kind = "ok"
              THEN [Consult(c, "remote", TRUE, "ok") EXCEPT
                      !.pc = "store", !.data = response.body]
              ELSE getQuestionnaire_local(Consult(c, "remote", FALSE, response.kind),
                                          bundledOk, now)]
  /\ UNCHANGED <<stores, cmp, retry, update, now, ticks, storage, res, memoryCache, started>>

getQuestionnaire_setCachedData(p) ==
  /\ calls[p].pc = "store" /\ calls[p].op = "getQuestionnaire"
  /\ \E setOk \in BOOLEAN, bundledOk \in BOOLEAN :
       LET cacheKey == questionnaireKey(calls[p].categoryPath, calls[p].id)
           r == setCachedData(storage, cacheKey, calls[p].data, now, setOk)
           c == Did(calls[p], r.io)
       IN /\ storage' = r.store
          /\ calls' = [calls EXCEPT ![p] =
               IF r.threw
                 THEN getQuestionnaire_local(c, bundledOk, now)
                 ELSE Settle(c, c.data, "remote", now)]
  /\ UNCHANGED <<stores, cmp, retry, update, now, ticks, res, memoryCache, started>>

-----------------------------------------------------------------------------
(* QuestionnaireService.getQuestionnaires *)

\* Mutant: null instead of the empty list.
getQuestionnaires_empty_null(c, t) ==
  Settle(Consult(c, "mock", TRUE, "built-in"), Null, "mock", t)

\* catch (error) of the whole method, and the list no questionnaire was
\* pushed to: the empty list.
getQuestionnaires_empty(c, t) ==
  Settle(Consult(c, "mock", TRUE, "built-in"), List(<<>>), "mock", t)

getQuestionnaires_getCachedData(p) ==
  /\ calls[p].pc = "cache" /\ calls[p].op = "getQuestionnaires"
  /\ \E getOk \in BOOLEAN, removeOk \in BOOLEAN :
       LET cacheKey == questionnairesKey(calls[p].categoryPath)
           r   == getCachedData(storage, cacheKey, now, getOk, removeOk)
           c   == Did(calls[p], r.io)
           why == MissReason(storage, cacheKey, getOk)
           questionnaireIds == categoryQuestionnaires(calls[p].categoryPath)
       IN /\ storage' = r.store
          /\ calls' = [calls EXCEPT ![p] =
               IF r.threw
                 THEN getQuestionnaires_empty(Consult(c, "persistent", FALSE, "threw"), now)
               ELSE IF r.ret # Null
                 THEN Settle(Consult(c, "persistent", TRUE, "fresh"),
                             r.ret, "persistent", now)
               ELSE IF Len(questionnaireIds) = 0
                 THEN getQuestionnaires_empty(Consult(c, "persistent", FALSE, why), now)
               ELSE [Consult(c, "persistent", FALSE, why) EXCEPT !.pc = "fetch"]]
  /\ UNCHANGED <<stores, cmp, retry, update, now, ticks, res, memoryCache, started>>

\* One round of the for loop: the fetch of questionnaireIds[i].  The local
\* copy is looked up in the catch block only, that is when fetch or
\* response.json() threw.
getQuestionnaires_fetch(p) ==
  /\ calls[p].pc = "fetch" /\ calls[p].op = "getQuestionnaires"
  /\ LET questionnaireIds == categoryQuestionnaires(calls[p].categoryPath)
         id == questionnaireIds[calls[p].i]
     IN \E response \in Responses(QuestionnaireBodies(id)), bundledOk \in BOOLEAN :
       LET c0 == [calls[p] EXCEPT !.fetches = @ + 1]
           local == IF bundledOk THEN getLocalQuestionnaire(c0.categoryPath, id)
                                 ELSE Null
           c1 == IF response.kind = "ok"
                   THEN [Consult(c0, "remote", TRUE, "ok") EXCEPT
                           !.list = Append(@, response.body),
                           !.from = Append(@, "remote")]
                 ELSE IF response.kind = "status"
                   THEN Consult(c0, "remote", FALSE, response.kind)
                 ELSE IF ~localFallback
                   THEN Consult(c0, "remote", FALSE, response.kind)
                 ELSE IF local # Null
                   THEN [Consult(Consult(c0, "remote", FALSE, response.kind),
                                 "bundled", TRUE, "present") EXCEPT
                           !.list = Append(@, local),
                           !.from = Append(@, "bundled")]
                 ELSE Consult(Consult(c0, "remote", FALSE, response.kind),
                              "bundled", FALSE, "absent")
       IN calls' = [calls EXCEPT ![p] =
            IF c1.i < Len(questionnaireIds) THEN [c1 EXCEPT !.i = @ + 1]
            ELSE IF Len(c1.list) > 0 THEN [c1 EXCEPT !.pc = "store"]
            ELSE getQuestionnaires_empty(c1, now)]
  /\ UNCHANGED <<stores, cmp, retry, update, now, ticks, storage, res, memoryCache, started>>

getQuestionnaires_setCachedData(p) ==
  /\ calls[p].pc = "store" /\ calls[p].op = "getQuestionnaires"
  /\ \E setOk \in BOOLEAN :
       LET cacheKey == questionnairesKey(calls[p].categoryPath)
           r == setCachedData(storage, cacheKey, List(calls[p].list), now, setOk)
           c == Did(calls[p], r.io)
           tier == IF \E n \in 1..Len(c.from) : c.from[n] = "bundled"
                     THEN "bundled" ELSE "remote"
       IN /\ storage' = r.store
          /\ calls' = [calls EXCEPT ![p] =
               IF r.threw THEN getQuestionnaires_empty(c, now)
                          ELSE Settle(c, List(c.list), tier, now)]
  /\ UNCHANGED <<stores, cmp, retry, update, now, ticks, res, memoryCache, started>>

clearCache ==
  /\ NoneSettled
  /\ \E keysOk \in BOOLEAN, multiOk \in BOOLEAN :
       LET r == QuestionnaireService_clearCache(storage, keysOk, multiOk)
       IN /\ storage' = r.store
          /\ res' = Outcome("clearCache", <<>>, r)
  /\ UNCHANGED <<stores, cmp, retry, update, now, ticks, memoryCache, calls, started>>

-----------------------------------------------------------------------------
(* KnowledgeService.fetchKnowledgeBlock (src/src/services/knowledgeService.ts) *)

BlockBodies(blockId) == {KnowledgeBlock(blockId, title) : title \in RemoteTitles}

getMockBlock(blockId) == [id |-> blockId, title |-> "Mock Knowledge Block"]

memoryCache_set(cache, blockId, block) ==
  [x \in (DOMAIN cache) \cup {blockId} |-> IF x = blockId THEN block ELSE cache[x]]

\* catch (error): return this.getMockBlock(blockId)
fetchKnowledgeBlock_mock(c, t) ==
  Settle(Consult(c, "mock", TRUE, "built-in"), getMockBlock(c.id), "mock", t)

\* "Check persistent cache": awaited outside the try block.
fetchKnowledgeBlock_getCachedKnowledgeBlock(p) ==
  /\ calls[p].pc = "cache" /\ calls[p].op = "fetchKnowledgeBlock"
  /\ \E getOk \in BOOLEAN, removeOk \in BOOLEAN :
       LET blockId == calls[p].id
           r   == CacheService_getCachedKnowledgeBlock(storage, blockId, now, getOk, removeOk)
           c   == Did(calls[p], r.io)
           why == MissReason(storage, CACHE_PREFIX \o KnowledgeBlockKey(blockId), getOk)
       IN /\ storage' = r.store
          /\ IF r.threw
               THEN /\ calls' = [calls EXCEPT ![p] =
                         Reject(Consult(c, "persistent", FALSE, "threw"), now)]
                    /\ UNCHANGED memoryCache
             ELSE IF r.ret # Null
               THEN /\ memoryCache' = memoryCache_set(memoryCache, blockId, r.ret)
                    /\ calls' = [calls EXCEPT ![p] =
                         Settle(Consult(c, "persistent", TRUE, "fresh"),
                                r.ret, "persistent", now)]
             ELSE /\ calls' = [calls EXCEPT ![p] =
                       [Consult(c, "persistent", FALSE, why) EXCEPT !.pc = "fetch"]]
                  /\ UNCHANGED memoryCache
  /\ UNCHANGED <<stores, cmp, retry, update, now, ticks, res, started>>

\* Mutant: the mock block is put into the memory map.
fetchKnowledgeBlock_fetch_keepsMock(p) ==
  /\ calls[p].pc = "fetch" /\ calls[p].op = "fetchKnowledgeBlock"
  /\ \E response \in Responses(BlockBodies(calls[p].id)) :
       LET c == [calls[p] EXCEPT !.fetches = @ + 1]
       IN IF response.kind = "ok"
            THEN /\ memoryCache' = memoryCache_set(memoryCache, c.id, response.body)
                 /\ calls' = [calls EXCEPT ![p] =
                      [Consult(c, "remote", TRUE, "ok") EXCEPT
                         !.pc = "store", !.data = response.body]]
            ELSE /\ calls' = [calls EXCEPT ![p] =
                      fetchKnowledgeBlock_mock(
                        Consult(c, "remote", FALSE, response.kind), now)]
                 /\ memoryCache' = memoryCache_set(memoryCache, c.id, getMockBlock(c.id))
  /\ UNCHANGED <<stores, cmp, retry, update, now, ticks, storage, res, started>>

\* fetch, response.text() and YAML.parse; a parsed block goes into
\* memoryCache before the persistent write is awaited.
fetchKnowledgeBlock_fetch(p) ==
  /\ calls[p].pc = "fetch" /\ calls[p].op = "fetchKnowledgeBlock"
  /\ \E response \in Responses(BlockBodies(calls[p].id)) :
       LET c == [calls[p] EXCEPT !.fetches = @ + 1]
       IN IF response.kind = "ok"
            THEN /\ memoryCache' = memoryCache_set(memoryCache, c.id, response.body)
                 /\ calls' = [calls EXCEPT ![p] =
                      [Consult(c, "remote", TRUE, "ok") EXCEPT
                         !.pc = "store", !.data = response.body]]
            ELSE /\ calls' = [calls EXCEPT ![p] =
                      fetchKnowledgeBlock_mock(
                        Consult(c, "remote", FALSE, response.kind), now)]
                 /\ UNCHANGED memoryCache
  /\ UNCHANGED <<stores, cmp, retry, update, now, ticks, storage, res, started>>

fetchKnowledgeBlock_cacheKnowledgeBlock(p) ==
  /\ calls[p].pc = "store" /\ calls[p].op = "fetchKnowledgeBlock"
  /\ \E setOk \in BOOLEAN :
       LET r == CacheService_cacheKnowledgeBlock(storage, calls[p].id, calls[p].data, now, setOk)
           c == Did(calls[p], r.io)
       IN /\ storage' = r.store
          /\ calls' = [calls EXCEPT ![p] =
               IF r.threw THEN fetchKnowledgeBlock_mock(c, now)
                          ELSE Settle(c, c.data, "remote", now)]
  /\ UNCHANGED <<stores, cmp, retry, update, now, ticks, res, memoryCache, started>>

-----------------------------------------------------------------------------
(* The application: one caller of the two services at a time *)

GEMINI_API_KEY == <<"g","e","m","i","n","i","_","a","p","i","_","k","e","y">>
questionnaire_current ==
  <<"q","u","e","s","t","i","o","n","n","a","i","r","e","_","c","u","r","r","e","n","t">>
\* useQuestionnaireStore.saveState: questionnaire_<category>_<questionnaireId>
answerStateKey(category, questionnaireId) ==
  <<"q","u","e","s","t","i","o","n","n","a","i","r","e","_">>
    \o category \o <<"_">> \o questionnaireId

\* What earlier sessions left in AsyncStorage besides cache entries: the
\* saved journey, the API key and saved questionnaire answers.
OtherKeys ==
  {JOURNEY_KEY, GEMINI_API_KEY, questionnaire_current,
   answerStateKey(cicd, cicd_pipeline)}

SavedState ==
  [k \in OtherKeys |->
     IF k = GEMINI_API_KEY THEN [text |-> "api key"]
     ELSE IF k = JOURNEY_KEY THEN JSON_stringify(Journey)
     ELSE JSON_stringify([answers |-> "saved", lastModified |-> 0])]

\* More than CACHE_DURATION passes between two calls.
Elapse ==
  /\ ticks < MaxTicks
  /\ NoneSettled
  /\ now' = now + CACHE_DURATION + HOUR_MS
  /\ ticks' = ticks + 1
  /\ UNCHANGED <<stores, cmp, retry, update, storage, res, memoryCache, calls, started>>

Init ==
  /\ now = 0
  /\ ticks = 0
  /\ storage = SavedState
  /\ res = NoCall
  /\ memoryCache = EmptyStorage
  /\ calls = [p \in {1} |-> Idle]
  /\ started = 0
  /\ cmp = NoCompare
  /\ retry = NoRetry
  /\ update = NoUpdate
  /\ stores = NoStores

Next ==
  \/ \E p \in DOMAIN calls : Call(p)
  \/ \E p \in DOMAIN calls : Return(p)
  \/ \E p \in DOMAIN calls : getCategories_getCachedData(p)
  \/ \E p \in DOMAIN calls : getCategories_fetch(p)
  \/ \E p \in DOMAIN calls : getCategories_setCachedData(p)
  \/ \E p \in DOMAIN calls : getQuestionnaires_getCachedData(p)
  \/ \E p \in DOMAIN calls : getQuestionnaires_fetch(p)
  \/ \E p \in DOMAIN calls : getQuestionnaires_setCachedData(p)
  \/ \E p \in DOMAIN calls : getQuestionnaire_getCachedData(p)
  \/ \E p \in DOMAIN calls : getQuestionnaire_fetch(p)
  \/ \E p \in DOMAIN calls : getQuestionnaire_setCachedData(p)
  \/ \E p \in DOMAIN calls : fetchKnowledgeBlock_getCachedKnowledgeBlock(p)
  \/ \E p \in DOMAIN calls : fetchKnowledgeBlock_fetch(p)
  \/ \E p \in DOMAIN calls : fetchKnowledgeBlock_cacheKnowledgeBlock(p)
  \/ clearCache
  \/ clearAll
  \/ Elapse
  \/ Corrupt

Spec == Init /\ [][Next]_vars

-----------------------------------------------------------------------------
(* The application with two callers: a second call may start while the first
   is at one of its awaits *)

ConcurrentTargets ==
  {[op |-> "getCategories", categoryPath |-> <<>>, id |-> <<>>],
   [op |-> "getQuestionnaire", categoryPath |-> cicd, id |-> cicd_pipeline]}

CallConcurrently(p) == CallOf(p, ConcurrentTargets)

InitConc ==
  /\ now = 0
  /\ ticks = 0
  /\ storage = SavedState
  /\ res = NoCall
  /\ memoryCache = EmptyStorage
  /\ calls = [p \in {1, 2} |-> Idle]
  /\ started = 0
  /\ cmp = NoCompare
  /\ retry = NoRetry
  /\ update = NoUpdate
  /\ stores = NoStores

NextConc ==
  \/ \E p \in DOMAIN calls : CallConcurrently(p)
  \/ \E p \in DOMAIN calls : getCategories_getCachedData(p)
  \/ \E p \in DOMAIN calls : getCategories_fetch(p)
  \/ \E p \in DOMAIN calls : getCategories_setCachedData(p)
  \/ \E p \in DOMAIN calls : getQuestionnaire_getCachedData(p)
  \/ \E p \in DOMAIN calls : getQuestionnaire_fetch(p)
  \/ \E p \in DOMAIN calls : getQuestionnaire_setCachedData(p)

SpecConc == InitConc /\ [][NextConc]_vars

-----------------------------------------------------------------------------
(* Termination *)

\* What the runtime and the device guarantee to a call that is under way: a
\* request to AsyncStorage settles, resolved or rejected, and the code after
\* it runs.  Nothing in getCategories, getQuestionnaires, getQuestionnaire or
\* fetchKnowledgeBlock bounds the time `await fetch(url)` takes: there is no
\* timeout, no abort signal and no retry around it, so a request the network
\* never answers stays pending, and no fairness is stated for the fetch steps.
StorageStep ==
  \E p \in DOMAIN calls :
    \/ getCategories_getCachedData(p)
    \/ getCategories_setCachedData(p)
    \/ getQuestionnaires_getCachedData(p)
    \/ getQuestionnaires_setCachedData(p)
    \/ getQuestionnaire_getCachedData(p)
    \/ getQuestionnaire_setCachedData(p)
    \/ fetchKnowledgeBlock_getCachedKnowledgeBlock(p)
    \/ fetchKnowledgeBlock_cacheKnowledgeBlock(p)

SpecLive == Init /\ [][Next]_vars /\ WF_vars(StorageStep)

-----------------------------------------------------------------------------
(* Version comparison (src/unnamed/part_021, src/unnamed/part_020) *)

\* Number(s) of a string of decimal digits; NaN for anything else but the
\* empty string, which is 0.  Every comparison with NaN is false.
NaN == -1
Digits == <<"0", "1", "2", "3", "4", "5", "6", "7", "8", "9">>
IsDigit(ch) == \E d \in 1..10 : Digits[d] = ch
DigitValue(ch) == (CHOOSE d \in 1..10 : Digits[d] = ch) - 1

RECURSIVE DecimalValue(_)
DecimalValue(s) ==
  IF Len(s) = 0 THEN 0
  ELSE 10 * DecimalValue(SubSeq(s, 1, Len(s) - 1)) + DigitValue(s[Len(s)])

\* Mutant: a component counts by its first character, as it does when
\* strings are compared.
Number_firstDigit(s) == IF Len(s) = 0 THEN 0 ELSE DigitValue(s[1])

Number(s) ==
  IF \A n \in 1..Len(s) : IsDigit(s[n]) THEN DecimalValue(s) ELSE NaN

\* s.split('.')
RECURSIVE Split(_, _)
Split(s, sep) ==
  IF \A n \in 1..Len(s) : s[n] # sep THEN <<s>>
  ELSE LET at == CHOOSE n \in 1..Len(s) :
                   s[n] = sep /\ \A m \in 1..(n - 1) : s[m] # sep
       IN <<SubSeq(s, 1, at - 1)>> \o Split(SubSeq(s, at + 1, Len(s)), sep)

\* parts[i] of a JavaScript array, 0-based; Number(undefined) is NaN.
Part(parts, i) == IF i + 1 <= Len(parts) THEN parts[i + 1] ELSE NaN
Greater(a, b) == a # NaN /\ b # NaN /\ a > b
Less(a, b) == a # NaN /\ b # NaN /\ a < b

VERSION_PARTS == 4

\* for (let i = 0; i < 4; i++) { ... } return false
RECURSIVE isNewerVersion_from(_, _, _)
isNewerVersion_from(parts1, parts2, i) ==
  IF ~(i < VERSION_PARTS) THEN FALSE
  ELSE IF Greater(Part(parts1, i), Part(parts2, i)) THEN TRUE
  ELSE IF Less(Part(parts1, i), Part(parts2, i)) THEN FALSE
  ELSE isNewerVersion_from(parts1, parts2, i + 1)

Parts(v) ==
  LET strings == Split(v, ".")
  IN [n \in 1..Len(strings) |-> Number(strings[n])]

\* Mutant: the arguments are taken the other way round.
isNewerVersion_swapped(v1, v2) == isNewerVersion_from(Parts(v2), Parts(v1), 0)

isNewerVersion(v1, v2) == isNewerVersion_from(Parts(v1), Parts(v2), 0)

\* Versions to compare: four components, each written plainly or with a
\* leading zero, joined by dots; and the versions of the design notes.
Component(value, text) == [value |-> value, text |-> text]
ComponentInputs ==
  {Component(9, <<"9">>), Component(9, <<"0", "9">>), Component(10, <<"1", "0">>)}

RECURSIVE Join(_, _)
Join(strings, sep) ==
  IF Len(strings) = 0 THEN <<>>
  ELSE IF Len(strings) = 1 THEN strings[1]
  ELSE strings[1] \o <<sep>> \o Join(Tail(strings), sep)

Version(components) ==
  [nums |-> [n \in 1..Len(components) |-> components[n].value],
   text |-> Join([n \in 1..Len(components) |-> components[n].text], ".")]

V_2024_12_01_0 ==
  Version(<<Component(2024, <<"2","0","2","4">>), Component(12, <<"1","2">>),
            Component(1, <<"0","1">>), Component(0, <<"0">>)>>)
V_2024_12_15_0 ==
  Version(<<Component(2024, <<"2","0","2","4">>), Component(12, <<"1","2">>),
            Component(15, <<"1","5">>), Component(0, <<"0">>)>>)
V_2024_12_15_1 ==
  Version(<<Component(2024, <<"2","0","2","4">>), Component(12, <<"1","2">>),
            Component(15, <<"1","5">>), Component(1, <<"1">>)>>)

VersionInputs ==
  {Version(components) : components \in [1..VERSION_PARTS -> ComponentInputs]}
    \cup {V_2024_12_01_0, V_2024_12_15_0, V_2024_12_15_1}

isNewerVersion_call ==
  /\ cmp.op = "args"
  /\ cmp' = [op |-> "isNewerVersion", v1 |-> cmp.v1, v2 |-> cmp.v2,
             ret |-> isNewerVersion(cmp.v1.text, cmp.v2.text)]
  /\ UNCHANGED <<stores, now, ticks, storage, res, memoryCache, calls, started, retry, update>>

InitVersion ==
  /\ now = 0
  /\ ticks = 0
  /\ storage = EmptyStorage
  /\ res = NoCall
  /\ memoryCache = EmptyStorage
  /\ calls = <<>>
  /\ started = 0
  /\ cmp \in {[op |-> "args", v1 |-> v1, v2 |-> v2] : v1 \in VersionInputs, v2 \in VersionInputs}
  /\ retry = NoRetry
  /\ update = NoUpdate
  /\ stores = NoStores

NextVersion == isNewerVersion_call

SpecVersion == InitVersion /\ [][NextVersion]_vars

-----------------------------------------------------------------------------
(* HTTP responses as the update services see them *)

Undefined == [undefined |-> TRUE]

\* obj.name of a parsed JSON object
Field(obj, name) == IF name \in DOMAIN obj THEN obj[name] ELSE Undefined

\* await fetch(url): the promise rejects (no connection, DNS, timeout), or it
\* resolves with a response whose ok flag tells a 2xx status from any other
\* and whose body is a text.
NetworkFailure == [threw |-> TRUE]
HttpResponse(ok, body) == [threw |-> FALSE, ok |-> ok, body |-> body]

\* The body servers send with an error status: a plain text such as
\* "404: Not Found", or a JSON document describing the error.
ErrorBody == [message |-> "Not Found"]

Fetches(bodies) ==
  {NetworkFailure}
    \cup {HttpResponse(TRUE, JSON_stringify(b)) : b \in bodies}
    \cup {HttpResponse(TRUE, InvalidJson)}
    \cup {HttpResponse(FALSE, InvalidJson), HttpResponse(FALSE, JSON_stringify(ErrorBody))}

\* await response.json()
response_json(response) == JSON_parse(response.body)

-----------------------------------------------------------------------------
(* QuestionnaireUpdateService (src/unnamed/part_021); KnowledgeUpdateService
   (src/unnamed/part_020) has the same two methods under 'knowledge_version' *)

questionnaire_version ==
  <<"q","u","e","s","t","i","o","n","n","a","i","r","e","_","v","e","r","s","i","o","n">>

\* A version string, as the manifest carries it and as AsyncStorage keeps it.
VersionString(chars) == [text |-> "version", string |-> chars]

V_2024_12_1_0 ==
  Version(<<Component(2024, <<"2","0","2","4">>), Component(12, <<"1","2">>),
            Component(1, <<"1">>), Component(0, <<"0">>)>>)

\* The versions a manifest may announce and the ones an earlier update left.
RemoteVersions == {V_2024_12_01_0, V_2024_12_1_0, V_2024_12_15_0}
StoredVersions == {V_2024_12_01_0, V_2024_12_15_0}

Manifest(version) ==
  [version |-> VersionString(version.text), timestamp |-> "2024-12-15T10:00:00Z"]
ManifestBodies == {Manifest(v) : v \in RemoteVersions}

UpdateInfo(currentVersion, remoteManifest) ==
  [hasUpdate |-> TRUE, currentVersion |-> currentVersion,
   remoteVersion |-> Field(remoteManifest, "version"),
   checksum |-> Field(remoteManifest, "checksum"),
   timestamp |-> Field(remoteManifest, "timestamp")]

\* Mutant: the stored version is compared with the manifest.
VersionsDiffer_manifest(currentVersion, remoteVersion) ==
  currentVersion # [version |-> remoteVersion]

\* currentVersion !== remoteManifest.version
VersionsDiffer(currentVersion, remoteVersion) == currentVersion # remoteVersion

\* The update process of one application launch: where it stands (pc) and
\* its locals (currentVersion; updateInfo = what checkForUpdates returned;
\* i, data = the loop of downloadQuestionnaires; returned, ret = whether
\* downloadUpdate returned, and what).  The other fields record what it did: initialized = the promise
\* of initialize() has resolved; manifest = the response to the manifest
\* request of checkForUpdates; before = the version marker when downloadUpdate
\* began; log = the entities downloadQuestionnaires fetched, each with the
\* outcome of its write; since = the number of resolve calls started before
\* the process reached its current pc; loaded = the manifest loadManifest gave;
\* launch = the number of this launch of the application; last = what the
\* launch before did (Null at the first): whether its downloadUpdate returned
\* true, the manifest its check received and the manifest it loaded.
NotYet == [pending |-> TRUE]
NewUpdate ==
  [pc |-> "initialize", initialized |-> FALSE, currentVersion |-> Null,
   manifest |-> Null, updateInfo |-> NotYet, threw |-> FALSE,
   i |-> 1, data |-> Null, log |-> <<>>, before |-> Null, returned |-> FALSE, ret |-> FALSE,
   since |-> 0, loaded |-> Null, launch |-> 1, last |-> Null]

At(u, pc) == [u EXCEPT !.pc = pc, !.since = started]

\* What downloadQuestionnaires refreshes: the questionnaires of the known
\* categories.
Entity(categoryPath, id) == [categoryPath |-> categoryPath, id |-> id]
KnownEntities == <<Entity(cicd, cicd_pipeline), Entity(e2e, e2e_testing)>>
entityKey(entity) == entity.categoryPath \o <<"/">> \o entity.id

\* initialize() is called; it awaits loadBundledContent() and the look into
\* the file system cache.
initialize ==
  /\ update.pc = "off"
  /\ update' = At(NewUpdate, "initialize")
  /\ UNCHANGED <<stores, now, ticks, storage, res, memoryCache, calls, started, cmp, retry>>

\* Mutant: the check is awaited instead of being left to a timer.
checkForUpdatesInBackground_awaited(u) == At(u, "check")

\* setTimeout(async () => { ... }, 3000): the callback is queued and
\* checkForUpdatesInBackground returns; so does initialize.
checkForUpdatesInBackground(u) == At([u EXCEPT !.initialized = TRUE], "timer")

initialize_return ==
  /\ update.pc = "initialize"
  /\ update' = checkForUpdatesInBackground(update)
  /\ UNCHANGED <<stores, now, ticks, storage, res, memoryCache, calls, started, cmp, retry>>

\* The timer fires: the callback starts and calls checkForUpdates.
timer ==
  /\ update.pc = "timer"
  /\ update' = At(update, "check")
  /\ UNCHANGED <<stores, now, ticks, storage, res, memoryCache, calls, started, cmp, retry>>

\* checkForUpdates returns: updateInfo?.hasUpdate decides what follows.
checkForUpdates_return(u, updateInfo) ==
  At([u EXCEPT !.updateInfo = updateInfo],
     IF updateInfo # Null /\ Field(updateInfo, "hasUpdate") = TRUE
       THEN "shouldAutoUpdate" ELSE "done")

\* const currentVersion = await AsyncStorage.getItem('questionnaire_version')
checkForUpdates_getItem ==
  /\ update.pc = "check"
  /\ \E getOk \in BOOLEAN :
       update' =
         IF getOk
           THEN At([update EXCEPT !.currentVersion =
                      AsyncStorage_getItem(storage, questionnaire_version)], "manifest")
           ELSE checkForUpdates_return(update, Null)
  /\ UNCHANGED <<stores, now, ticks, storage, res, memoryCache, calls, started, cmp, retry>>

\* const response = await fetch(MANIFEST_URL);
\* const remoteManifest = await response.json(); the comparison and return
checkForUpdates_fetch ==
  /\ update.pc = "manifest"
  /\ \E response \in Fetches(ManifestBodies) :
       LET u == [update EXCEPT !.manifest = response]
           parsed == response_json(response)
       IN update' =
            IF response.threw THEN checkForUpdates_return(u, Null)
            ELSE IF parsed.threw THEN checkForUpdates_return(u, Null)
            ELSE IF VersionsDiffer(u.currentVersion, Field(parsed.value, "version"))
              THEN checkForUpdates_return(u, UpdateInfo(u.currentVersion, parsed.value))
              ELSE checkForUpdates_return(u, Null)
  /\ UNCHANGED <<stores, now, ticks, storage, res, memoryCache, calls, started, cmp, retry>>

\* if (await this.shouldAutoUpdate()) { await updateService.downloadUpdate() }
shouldAutoUpdate ==
  /\ update.pc = "shouldAutoUpdate"
  /\ \E auto \in BOOLEAN :
       update' =
         IF auto
           THEN At([update EXCEPT !.before =
                      AsyncStorage_getItem(storage, questionnaire_version)], "download")
           ELSE At(update, "done")
  /\ UNCHANGED <<stores, now, ticks, storage, res, memoryCache, calls, started, cmp, retry>>

\* Mutant: the catch block returns true.
downloadUpdate_return_true(u, value) ==
  At([u EXCEPT !.returned = TRUE, !.ret = TRUE], "done")

\* return true at the end of the try block, and
\* catch (error) { console.error('Download failed:', error); return false }
downloadUpdate_return(u, value) ==
  At([u EXCEPT !.returned = TRUE, !.ret = value], "done")

\* const categoriesResponse = await fetch(CATEGORIES_URL);
\* const categories = await categoriesResponse.json();
\* downloadQuestionnaires(categories) starts; a document without the list
\* of categories makes it throw.
downloadUpdate_fetch ==
  /\ update.pc = "download"
  /\ \E response \in Fetches(CategoriesBodies) :
       LET parsed == response_json(response)
       IN update' =
            IF response.threw THEN downloadUpdate_return(update, FALSE)
            ELSE IF parsed.threw THEN downloadUpdate_return(update, FALSE)
            ELSE IF Field(parsed.value, "categories") = Undefined
              THEN downloadUpdate_return(update, FALSE)
            ELSE At(update, "entity")
  /\ UNCHANGED <<stores, now, ticks, storage, res, memoryCache, calls, started, cmp, retry>>

\* downloadQuestionnaires: the next entity is fetched through the remote
\* provider; a failed fetch ends the download.
downloadQuestionnaires_fetch ==
  /\ update.pc = "entity"
  /\ \E response \in Responses(QuestionnaireBodies(KnownEntities[update.i].id)) :
       update' =
         IF response.kind = "ok"
           THEN At([update EXCEPT !.data = response.body], "write")
           ELSE downloadUpdate_return(update, FALSE)
  /\ UNCHANGED <<stores, now, ticks, storage, res, memoryCache, calls, started, cmp, retry>>

\* downloadQuestionnaires: the fetched entity is written through
\* CacheService.set; after the last one loadManifest() follows.
downloadQuestionnaires_set ==
  /\ update.pc = "write"
  /\ \E setOk \in BOOLEAN :
       LET entity == KnownEntities[update.i]
           r == CacheService_set(storage, entityKey(entity), update.data,
                                 CACHE_EXPIRY_HOURS, now, setOk)
           u == [update EXCEPT
                   !.log = @ \o <<[entity |-> entity, data |-> update.data,
                                   written |-> setOk]>>,
                   !.data = Null, !.i = @ + 1]
       IN /\ storage' = r.store
          /\ update' = IF update.i < Len(KnownEntities)
                         THEN At(u, "entity") ELSE At(u, "loadManifest")
  /\ UNCHANGED <<stores, now, ticks, res, memoryCache, calls, started, cmp, retry>>

\* const manifest = await this.loadManifest();
\* await AsyncStorage.setItem('questionnaire_version', manifest.version);
\* return true
downloadUpdate_setItem ==
  /\ update.pc = "loadManifest"
  /\ \E response \in Responses(ManifestBodies), setOk \in BOOLEAN :
       IF response.kind # "ok"
         THEN /\ update' = downloadUpdate_return(update, FALSE)
              /\ storage' = storage
       ELSE IF ~setOk
         THEN /\ update' = downloadUpdate_return(update, FALSE)
              /\ storage' = storage
       ELSE /\ update' = downloadUpdate_return([update EXCEPT !.loaded = response.body], TRUE)
            /\ storage' = AsyncStorage_setItem(storage, questionnaire_version,
                                               response.body.version)
  /\ UNCHANGED <<stores, now, ticks, res, memoryCache, calls, started, cmp, retry>>

\* The application is closed and launched again: initialize() is called on
\* new service objects; AsyncStorage keeps what it holds.
relaunch ==
  /\ update.pc = "done"
  /\ update.launch < MaxLaunches
  /\ update' =
       At([NewUpdate EXCEPT
             !.launch = update.launch + 1,
             !.last = [downloaded |-> update.returned /\ update.ret,
                       manifest |-> update.manifest,
                       loaded |-> update.loaded]], "initialize")
  /\ UNCHANGED <<stores, now, ticks, storage, res, memoryCache, calls, started, cmp, retry>>

\* What earlier launches left: no version marker (first launch) or the
\* version of the last applied update.
MarkerStates ==
  {SavedState}
    \cup {AsyncStorage_setItem(SavedState, questionnaire_version, VersionString(v.text)) :
            v \in StoredVersions}

InitUpdate ==
  /\ now = 0
  /\ ticks = 0
  /\ storage \in MarkerStates
  /\ res = NoCall
  /\ memoryCache = EmptyStorage
  /\ calls = <<>>
  /\ started = 0
  /\ cmp = NoCompare
  /\ retry = NoRetry
  /\ update = NoUpdate
  /\ stores = NoStores

NextUpdate ==
  \/ initialize
  \/ initialize_return
  \/ timer
  \/ checkForUpdates_getItem
  \/ checkForUpdates_fetch
  \/ shouldAutoUpdate
  \/ downloadUpdate_fetch
  \/ downloadQuestionnaires_fetch
  \/ downloadQuestionnaires_set
  \/ downloadUpdate_setItem
  \/ relaunch

SpecUpdate == InitUpdate /\ [][NextUpdate]_vars

-----------------------------------------------------------------------------
(* The application at launch: initialize() with its background update, and a
   caller of getQuestionnaire *)

LaunchTargets ==
  {[op |-> "getQuestionnaire", categoryPath |-> cicd, id |-> cicd_pipeline]}

CallAtLaunch(p) == CallOf(p, LaunchTargets)

\* The next step of a call that is under way.
ResolverStep(p) ==
  \/ getQuestionnaire_getCachedData(p)
  \/ getQuestionnaire_fetch(p)
  \/ getQuestionnaire_setCachedData(p)

InitLaunch ==
  /\ now = 0
  /\ ticks = 0
  /\ storage = SavedState
  /\ res = NoCall
  /\ memoryCache = EmptyStorage
  /\ calls = [p \in {1} |-> Idle]
  /\ started = 0
  /\ cmp = NoCompare
  /\ retry = NoRetry
  /\ update = NoUpdate
  /\ stores = NoStores

NextLaunch ==
  \/ initialize
  \/ initialize_return
  \/ timer
  \/ checkForUpdates_getItem
  \/ checkForUpdates_fetch
  \/ shouldAutoUpdate
  \/ downloadUpdate_fetch
  \/ downloadQuestionnaires_fetch
  \/ downloadQuestionnaires_set
  \/ downloadUpdate_setItem
  \/ \E p \in DOMAIN calls : CallAtLaunch(p)
  \/ \E p \in DOMAIN calls : getQuestionnaire_getCachedData(p)
  \/ \E p \in DOMAIN calls : getQuestionnaire_fetch(p)
  \/ \E p \in DOMAIN calls : getQuestionnaire_setCachedData(p)

SpecLaunch == InitLaunch /\ [][NextLaunch]_vars

-----------------------------------------------------------------------------
(* fetchWithRetry (src/unnamed/part_021, src/unnamed/part_020) *)

maxRetries == 3
MANIFEST_URL == "manifest.json"
CATEGORIES_URL == "contexts/categories.json"
Urls == {MANIFEST_URL, CATEGORIES_URL}
BodiesAt(url) == IF url = MANIFEST_URL THEN ManifestBodies ELSE CategoriesBodies

\* Math.pow(2, i) * 1000
RECURSIVE Pow2(_)
Pow2(i) == IF i = 0 THEN 1 ELSE 2 * Pow2(i - 1)
Backoff(i) == Pow2(i) * 1000

\* One call of fetchWithRetry: where it stands (pc), the loop index i, and
\* how its promise settled (settled; threw or value).  The other fields
\* record what it did: attempts = the outcome of each fetch, in order, with
\* the time it was made at; waits = the delays it waited.
NewRetry(url) ==
  [pc |-> "fetch", url |-> url, i |-> 0, attempts |-> <<>>, waits |-> <<>>,
   settled |-> FALSE, threw |-> FALSE, value |-> Null]

Attempt(response, t) == [response |-> response, at |-> t]

fetchWithRetry_call ==
  /\ retry.pc = "idle"
  /\ \E url \in Urls : retry' = NewRetry(url)
  /\ UNCHANGED <<stores, now, ticks, storage, res, memoryCache, calls, started, cmp, update>>

\* i++ and the test i < maxRetries; the end of the function after the loop
\* returns undefined.
fetchWithRetry_next(r) ==
  IF r.i + 1 < maxRetries
    THEN [r EXCEPT !.i = @ + 1, !.pc = "fetch"]
    ELSE [r EXCEPT !.i = @ + 1, !.pc = "done", !.settled = TRUE, !.value = Undefined]

\* One pass of the loop body up to its first await that does not resolve at
\* once: the fetch, and what follows its outcome.
fetchWithRetry_fetch ==
  /\ retry.pc = "fetch"
  /\ \E response \in Fetches(BodiesAt(retry.url)) :
       LET r == [retry EXCEPT !.attempts = @ \o <<Attempt(response, now)>>]
       IN retry' =
            IF response.threw
              THEN IF r.i = maxRetries - 1
                     THEN [r EXCEPT !.pc = "done", !.settled = TRUE, !.threw = TRUE]
                     ELSE [r EXCEPT !.pc = "wait"]
            ELSE IF response.ok
              THEN [r EXCEPT !.pc = "done", !.settled = TRUE, !.value = response]
            ELSE fetchWithRetry_next(r)
  /\ UNCHANGED <<stores, now, ticks, storage, res, memoryCache, calls, started, cmp, update>>

\* await new Promise(resolve => setTimeout(resolve, Math.pow(2, i) * 1000))
fetchWithRetry_wait ==
  /\ retry.pc = "wait"
  /\ now' = now + Backoff(retry.i)
  /\ retry' = fetchWithRetry_next([retry EXCEPT !.waits = @ \o <<Backoff(retry.i)>>])
  /\ UNCHANGED <<stores, ticks, storage, res, memoryCache, calls, started, cmp, update>>

InitRetry ==
  /\ now = 0
  /\ ticks = 0
  /\ storage = EmptyStorage
  /\ res = NoCall
  /\ memoryCache = EmptyStorage
  /\ calls = <<>>
  /\ started = 0
  /\ cmp = NoCompare
  /\ retry = NoRetry
  /\ update = NoUpdate
  /\ stores = NoStores

NextRetry ==
  \/ fetchWithRetry_call
  \/ fetchWithRetry_fetch
  \/ fetchWithRetry_wait

SpecRetry == InitRetry /\ [][NextRetry]_vars

-----------------------------------------------------------------------------
(* The AsyncStorage keys of the entities (src/unnamed/part_001,
   src/unnamed/part_004) *)

pipeline == <<"p","i","p","e","l","i","n","e">>
cicd_pipeline_path == cicd \o <<"_">> \o pipeline
cache == <<"c","a","c","h","e">>

\* Category paths and questionnaire ids: the ones of the packaged content and
\* others that categories.json may name.
PathInputs == {cicd, e2e, cache, cicd_pipeline_path}
IdInputs == {cicd_pipeline, pipeline, cicd, e2e_testing}

\* What is kept in AsyncStorage: the questionnaire list of a category path,
\* one questionnaire, and the answers of one questionnaire.
QuestionnaireList(categoryPath) == [type |-> "questionnaires", categoryPath |-> categoryPath]
SingleQuestionnaire(categoryPath, id) ==
  [type |-> "questionnaire", categoryPath |-> categoryPath, id |-> id]
AnswerState(category, id) == [type |-> "answers", category |-> category, id |-> id]

StoredEntities ==
  {QuestionnaireList(c) : c \in PathInputs}
    \cup {SingleQuestionnaire(c, q) : c \in PathInputs, q \in IdInputs}
    \cup {AnswerState(c, q) : c \in PathInputs, q \in IdInputs}

\* const cacheKey = `${CACHE_PREFIX}${categoryPath}`, and the like
storageKey(entity) ==
  IF entity.type = "questionnaires" THEN questionnairesKey(entity.categoryPath)
  ELSE IF entity.type = "questionnaire" THEN questionnaireKey(entity.categoryPath, entity.id)
  ELSE answerStateKey(entity.category, entity.id)

storageKey_call ==
  /\ cmp.op = "entities"
  /\ cmp' = [op |-> "storageKey", e1 |-> cmp.e1, e2 |-> cmp.e2,
             key1 |-> storageKey(cmp.e1), key2 |-> storageKey(cmp.e2)]
  /\ UNCHANGED <<stores, now, ticks, storage, res, memoryCache, calls, started, retry, update>>

InitKeys ==
  /\ now = 0
  /\ ticks = 0
  /\ storage = EmptyStorage
  /\ res = NoCall
  /\ memoryCache = EmptyStorage
  /\ calls = <<>>
  /\ started = 0
  /\ cmp \in {[op |-> "entities", e1 |-> e1, e2 |-> e2] :
                e1 \in StoredEntities, e2 \in StoredEntities}
  /\ retry = NoRetry
  /\ update = NoUpdate
  /\ stores = NoStores

NextKeys == storageKey_call

SpecKeys == InitKeys /\ [][NextKeys]_vars

-----------------------------------------------------------------------------
(* CacheService.get and CacheService.set on one key, await by await
   (src/src/services/cacheService.ts) *)

\* calls[1] is the get, calls[2] the set; each stands at one of its awaits.
Getting(key) ==
  [op |-> "get", key |-> key, pc |-> "getItem", read |-> Null, readAt |-> 0,
   ret |-> Null, io |-> <<>>]
Setting(key, data) ==
  [op |-> "set", key |-> key, pc |-> "setItem", data |-> data, wrote |-> Null,
   io |-> <<>>]

\* const serialized = await AsyncStorage.getItem(CACHE_PREFIX + key), and the
\* synchronous code up to the next await
get_getItem ==
  /\ Len(calls) = 2 /\ calls[1].pc = "getItem"
  /\ \E getOk \in BOOLEAN :
       LET c          == calls[1]
           k          == CACHE_PREFIX \o c.key
           serialized == AsyncStorage_getItem(storage, k)
           io         == <<IO("getItem", k, getOk)>>
           parsed     == JSON_parse(serialized)
       IN calls' =
            [calls EXCEPT ![1] =
               IF ~getOk \/ serialized = Null \/ parsed.threw
                 THEN [c EXCEPT !.pc = "done", !.io = io]
               ELSE IF CacheService_isExpired(parsed.value, now)
                 THEN [c EXCEPT !.pc = "remove", !.io = io,
                                !.read = parsed.value, !.readAt = now]
               ELSE [c EXCEPT !.pc = "done", !.io = io, !.read = parsed.value,
                              !.readAt = now, !.ret = parsed.value.data]]
  /\ UNCHANGED <<stores, now, ticks, storage, res, memoryCache, started, cmp, retry, update>>

\* await this.remove(key); return null
get_remove ==
  /\ Len(calls) = 2 /\ calls[1].pc = "remove"
  /\ \E removeOk \in BOOLEAN :
       LET c == calls[1]
           r == CacheService_remove(storage, c.key, removeOk)
       IN /\ storage' = r.store
          /\ calls' = [calls EXCEPT ![1] = [c EXCEPT !.pc = "done", !.io = @ \o r.io]]
  /\ UNCHANGED <<stores, now, ticks, res, memoryCache, started, cmp, retry, update>>

\* set(key, data): Date.now() and the setItem it awaits
set_setItem ==
  /\ Len(calls) = 2 /\ calls[2].pc = "setItem"
  /\ \E setOk \in BOOLEAN :
       LET c == calls[2]
           r == CacheService_set(storage, c.key, c.data, CACHE_EXPIRY_HOURS, now, setOk)
       IN /\ storage' = r.store
          /\ calls' =
               [calls EXCEPT ![2] =
                  [c EXCEPT !.pc = "done", !.io = r.io,
                            !.wrote = IF setOk
                                        THEN CacheItem(c.data, now, CACHE_EXPIRY_HOURS)
                                        ELSE Null]]
  /\ UNCHANGED <<stores, now, ticks, res, memoryCache, started, cmp, retry, update>>

\* Date.now() moves between the awaits.
ElapseBetweenAwaits ==
  /\ ticks < MaxTicks
  /\ Len(calls) = 2
  /\ \E p \in 1..2 : calls[p].pc # "done"
  /\ now' = now + HOUR_MS
  /\ ticks' = ticks + 1
  /\ UNCHANGED <<stores, storage, res, memoryCache, calls, started, cmp, retry, update>>

\* An entry stored at time 0 is read 23, 24, 25 or 26 hours later while
\* another caller stores new data under the same key.
InitEvict ==
  /\ now \in {23 * HOUR_MS, 24 * HOUR_MS, 25 * HOUR_MS, 26 * HOUR_MS}
  /\ ticks = 0
  /\ \E data \in TestData :
       storage = CacheService_set(EmptyStorage, TestKey, data, CACHE_EXPIRY_HOURS, 0, TRUE).store
  /\ res = NoCall
  /\ memoryCache = EmptyStorage
  /\ \E data \in TestData : calls = <<Getting(TestKey), Setting(TestKey, data)>>
  /\ started = 0
  /\ cmp = NoCompare
  /\ retry = NoRetry
  /\ update = NoUpdate
  /\ stores = NoStores

NextEvict ==
  \/ get_getItem
  \/ get_remove
  \/ set_setItem
  \/ ElapseBetweenAwaits

SpecEvict == InitEvict /\ [][NextEvict]_vars

-----------------------------------------------------------------------------
(* useQuestionnaireStore (src/unnamed/part_004): stores is its state *)

MaxHistory == 3

\* Questions and answers are strings; a question may be asked twice, and ''
\* is a string.
Questions == {"Q1", "Q2", ""}
Answers == {"A1", "A2"}
ContextKeys == {"category"}
ContextValues == {"cicd", "e2e"}
Resources == {"r1"}

EmptyObject == [k \in {} |-> ""]

\* { ...object, [key]: value }
Spread(object, key, value) ==
  [k \in DOMAIN object \cup {key} |-> IF k = key THEN value ELSE object[k]]

\* delete object[key]
Delete(object, key) == [k \in DOMAIN object \ {key} |-> object[k]]

initialState ==
  [currentBlockId |-> "",
   questionnaireHistory |-> <<>>,
   answers |-> EmptyObject,
   context |-> EmptyObject,
   resources |-> <<>>]

addAnswer(question, answer) ==
  /\ Len(stores.questionnaireHistory) < MaxHistory
  /\ stores' = [stores EXCEPT
                  !.questionnaireHistory = Append(@, question),
                  !.answers = Spread(@, question, answer)]
  /\ UNCHANGED <<now, ticks, storage, res, memoryCache, calls, started, cmp, retry, update>>

\* slice(0, -1) of an empty array is empty, and the last element of an empty
\* array is undefined; undefined and '' are falsy.
goBack ==
  /\ LET history      == stores.questionnaireHistory
         newHistory   == IF Len(history) = 0 THEN <<>>
                         ELSE SubSeq(history, 1, Len(history) - 1)
         newAnswers   == IF Len(history) = 0 THEN stores.answers
                         ELSE IF history[Len(history)] = "" THEN stores.answers
                         ELSE Delete(stores.answers, history[Len(history)])
     IN stores' = [stores EXCEPT !.questionnaireHistory = newHistory,
                                 !.answers = newAnswers]
  /\ UNCHANGED <<now, ticks, storage, res, memoryCache, calls, started, cmp, retry, update>>

reset ==
  /\ stores' = initialState
  /\ UNCHANGED <<now, ticks, storage, res, memoryCache, calls, started, cmp, retry, update>>

clearAnswers ==
  /\ stores' = [stores EXCEPT !.questionnaireHistory = <<>>,
                              !.answers = EmptyObject,
                              !.resources = <<>>]
  /\ UNCHANGED <<now, ticks, storage, res, memoryCache, calls, started, cmp, retry, update>>

setContext(key, value) ==
  /\ stores' = [stores EXCEPT !.context = Spread(@, key, value)]
  /\ UNCHANGED <<now, ticks, storage, res, memoryCache, calls, started, cmp, retry, update>>

addResource(resource) ==
  /\ Len(stores.resources) < 1
  /\ stores' = [stores EXCEPT !.resources = Append(@, resource)]
  /\ UNCHANGED <<now, ticks, storage, res, memoryCache, calls, started, cmp, retry, update>>

InitStore ==
  /\ now = 0
  /\ ticks = 0
  /\ storage = EmptyStorage
  /\ res = NoCall
  /\ memoryCache = EmptyStorage
  /\ calls = <<>>
  /\ started = 0
  /\ cmp = NoCompare
  /\ retry = NoRetry
  /\ update = NoUpdate
  /\ stores = initialState

NextStore ==
  \/ \E question \in Questions, answer \in Answers : addAnswer(question, answer)
  \/ goBack
  \/ reset
  \/ clearAnswers
  \/ \E key \in ContextKeys, value \in ContextValues : setContext(key, value)
  \/ \E resource \in Resources : addResource(resource)

SpecStore == InitStore /\ [][NextStore]_vars

-----------------------------------------------------------------------------
(* useChatHistoryStore (src/unnamed/part_005): stores.messages is its Map *)

MAX_MESSAGES_PER_CHAT == 100
MaxMessages == 102

\* createChatKey(questionnaireId, categoryPath)
ChatKeys == {"cicd-pipeline_cicd", "default_general"}

\* The messages of a chat are numbered as they are written, the user's and
\* the assistant's in turn.
Message(id) == [id |-> id, isUser |-> id % 2 = 1]
Conversation(n) == [i \in 1..n |-> Message(i)]
SavedLengths ==
  {0, 1, MAX_MESSAGES_PER_CHAT, MAX_MESSAGES_PER_CHAT + 1, MaxMessages}

\* array.slice(-n)
SliceLast(array, n) ==
  SubSeq(array, (IF Len(array) > n THEN Len(array) - n ELSE 0) + 1, Len(array))

\* new Map(), map.set(key, value), map.delete(key)
NewMap == [k \in {} |-> <<>>]
Map_set(map, key, value) ==
  [k \in DOMAIN map \cup {key} |-> IF k = key THEN value ELSE map[k]]
Map_delete(map, key) == [k \in DOMAIN map \ {key} |-> map[k]]

\* newMap.get(key) || []
Existing(map, key) == IF key \in DOMAIN map THEN map[key] ELSE <<>>

\* The next message of the chat under key.
NextMessage(map, key) ==
  LET existing == Existing(map, key)
  IN Message(IF Len(existing) = 0 THEN 1 ELSE existing[Len(existing)].id + 1)

saveMessages(key, messages) ==
  /\ LET newMap          == stores.messages
         limitedMessages == SliceLast(messages, MAX_MESSAGES_PER_CHAT)
     IN stores' = [messages |-> Map_set(newMap, key, limitedMessages)]
  /\ UNCHANGED <<now, ticks, storage, res, memoryCache, calls, started, cmp, retry, update>>

\* Mutant: the list grows without the limit.
appendMessage_unlimited(key, message) ==
  /\ message.id <= MaxMessages
  /\ LET newMap   == stores.messages
         existing == Existing(newMap, key)
         updated  == existing \o <<message>>
     IN stores' = [messages |-> Map_set(newMap, key, updated)]
  /\ UNCHANGED <<now, ticks, storage, res, memoryCache, calls, started, cmp, retry, update>>

appendMessage(key, message) ==
  /\ message.id <= MaxMessages
  /\ LET newMap   == stores.messages
         existing == Existing(newMap, key)
         updated  == SliceLast(existing \o <<message>>, MAX_MESSAGES_PER_CHAT)
     IN stores' = [messages |-> Map_set(newMap, key, updated)]
  /\ UNCHANGED <<now, ticks, storage, res, memoryCache, calls, started, cmp, retry, update>>

clearMessages(key) ==
  /\ stores' = [messages |-> Map_delete(stores.messages, key)]
  /\ UNCHANGED <<now, ticks, storage, res, memoryCache, calls, started, cmp, retry, update>>

useChatHistoryStore_clearAll ==
  /\ stores' = [messages |-> NewMap]
  /\ UNCHANGED <<now, ticks, storage, res, memoryCache, calls, started, cmp, retry, update>>

InitChat ==
  /\ now = 0
  /\ ticks = 0
  /\ storage = EmptyStorage
  /\ res = NoCall
  /\ memoryCache = EmptyStorage
  /\ calls = <<>>
  /\ started = 0
  /\ cmp = NoCompare
  /\ retry = NoRetry
  /\ update = NoUpdate
  /\ stores = [messages |-> NewMap]

NextChat ==
  \/ \E key \in ChatKeys, n \in SavedLengths : saveMessages(key, Conversation(n))
  \/ \E key \in ChatKeys : appendMessage(key, NextMessage(stores.messages, key))
  \/ \E key \in ChatKeys : clearMessages(key)
  \/ useChatHistoryStore_clearAll

SpecChat == InitChat /\ [][NextChat]_vars

-----------------------------------------------------------------------------
(* Properties of CacheService, checked under SpecCache *)

StoredAs(key) == CACHE_PREFIX \o key

\* The entry under k parses, and now - storedAt <= the TTL it was stored with.
IsEntry(store, k) == k \in DOMAIN store /\ store[k].text = "json"
IsFresh(store, k, t) ==
  t - store[k].value.timestamp <= store[k].value.expiryHours * HOUR_MS

\* The steps of the operations, told by the outcome they leave in res.
SetStep(key) ==
  /\ res'.op = "set" /\ res'.key = key
  /\ \/ key = TestKey /\ \E data \in TestData : set(key, data)
     \/ \E blockId \in BlockIds, title \in RemoteTitles :
           /\ key = KnowledgeBlockKey(blockId)
           /\ cacheKnowledgeBlock(blockId, KnowledgeBlock(blockId, title))
GetStep(key) == res'.op = "get" /\ res'.key = key /\ get(key)
RemoveStep(key) == res'.op = "remove" /\ res'.key = key /\ remove(key)
ClearAllStep == res'.op = "clearAll" /\ clearAll
ClearCacheStep == res'.op = "clearCache" /\ clearCache

\* set removes nothing: every key present before is present after, and every
\* key but the one written keeps its text.
SetRemovesNothing(key) ==
  \A k \in DOMAIN storage :
     /\ k \in DOMAIN storage'
     /\ k # StoredAs(key) => storage'[k] = storage[k]

\* C3 as claimed: get(k) on a stored entry returns the payload and leaves the
\* entry exactly when now - storedAt <= TTL, otherwise returns null and the
\* entry is gone; set never removes an entry.
C3_GetAsClaimed(key) ==
  LET k == StoredAs(key)
  IN IsEntry(storage, k) =>
       IF IsFresh(storage, k, now)
         THEN res'.ret = storage[k].value.data /\ storage' = storage
         ELSE res'.ret = Null /\ k \notin DOMAIN storage'

C3_GetAmended(key) ==
  LET k      == StoredAs(key)
      served == res'.io[1].ok
  IN IsEntry(storage, k) =>
       /\ res'.io[1] = IO("getItem", k, served)
       /\ res'.ret # Null => IsFresh(storage, k, now)
       /\ IsFresh(storage, k, now) =>
            /\ storage' = storage
            /\ Len(res'.io) = 1
            /\ served => res'.ret = storage[k].value.data
       /\ ~IsFresh(storage, k, now) =>
            /\ res'.ret = Null
            /\ ~served => storage' = storage /\ Len(res'.io) = 1
            /\ served =>
                 /\ Len(res'.io) = 2
                 /\ res'.io[2].fn = "removeItem" /\ res'.io[2].arg = k
                 /\ res'.io[2].ok => storage' = AsyncStorage_removeItem(storage, k)
                 /\ ~res'.io[2].ok => storage' = storage

C7_GetFails(key) ==
  LET k == StoredAs(key)
  IN (~res'.io[1].ok \/ (k \in DOMAIN storage /\ ~IsEntry(storage, k)))
       => res'.ret = Null /\ storage' = storage

C7_NoErrorPropagates ==
  [][/\ (\E key \in CacheKeys : GetStep(key) \/ SetStep(key) \/ RemoveStep(key))
          => ~res'.threw
     /\ ClearAllStep => ~res'.threw
     /\ \A key \in CacheKeys :
          /\ GetStep(key) => C7_GetFails(key)
          /\ (SetStep(key) /\ ~res'.io[1].ok) => storage' = storage]_vars

\* Witness: a set was rejected by AsyncStorage while an earlier entry of the
\* same key and another cache entry are in the store.
C7_Witness ==
  /\ res.op = "set" /\ ~res.io[1].ok /\ ~res.threw
  /\ IsEntry(storage, StoredAs(res.key))
  /\ \E k \in DOMAIN storage : k # StoredAs(res.key) /\ StartsWith(k, CACHE_PREFIX)

-----------------------------------------------------------------------------
(* Properties of the resolvers, checked under Spec *)

\* The persistent key a call reads and writes, the payload a fetch of the call
\* parsed, what the method returns of a cached or fetched payload, what a
\* CacheStore get of the call's key returns at time t when AsyncStorage serves
\* it, and the lifetime of the entry.
CallKey(c) ==
  IF c.op = "getCategories" THEN CATEGORIES_CACHE_KEY
  ELSE IF c.op = "getQuestionnaires" THEN questionnairesKey(c.categoryPath)
  ELSE IF c.op = "getQuestionnaire" THEN questionnaireKey(c.categoryPath, c.id)
  ELSE CACHE_PREFIX \o KnowledgeBlockKey(c.id)

Fetched(c) == IF c.op = "getQuestionnaires" THEN List(c.list) ELSE c.data

Returned(c, payload) ==
  IF c.op = "getCategories" /\ payload # Null THEN payload.categories ELSE payload

CachedPayload(store, c, t) ==
  IF c.op = "fetchKnowledgeBlock"
    THEN CacheService_getCachedKnowledgeBlock(store, c.id, t, TRUE, TRUE).ret
    ELSE getCachedData(store, CallKey(c), t, TRUE, TRUE).ret

Ttl(c) ==
  IF c.op = "fetchKnowledgeBlock" THEN KNOWLEDGE_BLOCK_EXPIRY_HOURS * HOUR_MS
  ELSE CACHE_DURATION

\* What the application packages for the call's key (null: nothing), and the
\* built-in value of the method.
BundledEntry(c) ==
  IF c.op = "getCategories" THEN CategoriesData(BundledCategories)
  ELSE IF c.op = "getQuestionnaire" THEN getLocalQuestionnaire(c.categoryPath, c.id)
  ELSE Null

MockValue(c) ==
  IF c.op = "getCategories" THEN getMockCategories
  ELSE IF c.op = "getQuestionnaires" THEN List(<<>>)
  ELSE IF c.op = "getQuestionnaire" THEN Null
  ELSE getMockBlock(c.id)

TierOrder == <<"memory", "persistent", "remote", "bundled", "mock">>
TierRank(tier) == CHOOSE n \in 1..Len(TierOrder) : TierOrder[n] = tier

Consulted(c, tier, hit, why) ==
  \E n \in 1..Len(c.trace) : c.trace[n] = [tier |-> tier, hit |-> hit, why |-> why]

FulfilledCall(c) == c.pc = "done" /\ c.result.state = "fulfilled"

\* Every tier but the built-in one that the call consulted missed or failed.
AllDataTiersMiss(c) ==
  \A n \in 1..Len(c.trace) : c.trace[n].tier # "mock" => ~c.trace[n].hit

\* The payload of the tier the call took its value from.
TierPayload(c) ==
  IF c.tier = "memory" THEN memoryCache[c.id]
  ELSE IF c.tier = "persistent" THEN Returned(c, CachedPayload(storage, c, now))
  ELSE IF c.tier = "remote" THEN Returned(c, Fetched(c))
  ELSE IF c.tier = "bundled" THEN Returned(c, BundledEntry(c))
  ELSE MockValue(c)

\* C1: in a call of getCategories, getQuestionnaire or fetchKnowledgeBlock
\* the tiers are consulted in the order memory, persistent, remote, bundled,
\* mock, each only after all tiers consulted before it missed or failed; the
\* tier that hits supplies the returned value; and with an empty persistent
\* cache, a fetch that throws and a loadable bundled entry for the key, the
\* bundled payload is returned.
C1_Ops == {"getCategories", "getQuestionnaire", "fetchKnowledgeBlock"}

C2_NeverRejects ==
  \A p \in DOMAIN calls :
     LET c == calls[p]
     IN c.pc = "done" =>
          /\ c.result.state = "fulfilled"
          /\ AllDataTiersMiss(c) => c.result.value = MockValue(c)

\* Witness: getCategories met a rejected read, a non-2xx response and an
\* asset that did not load, and returned the mock categories.
C2_Witness ==
  \E p \in DOMAIN calls :
     /\ calls[p].pc = "done" /\ calls[p].op = "getCategories"
     /\ Consulted(calls[p], "persistent", FALSE, "rejected")
     /\ Consulted(calls[p], "remote", FALSE, "status")
     /\ Consulted(calls[p], "bundled", FALSE, "error")
     /\ calls[p].result = Fulfilled(getMockCategories)

\* A call that returned what its fetch delivered, and whether AsyncStorage
\* accepted the write that followed the fetch.
RemoteHit(c) == FulfilledCall(c) /\ c.tier = "remote"
WriteIssued(c) ==
  Len(c.io) > 0 /\ c.io[Len(c.io)].fn = "setItem" /\ c.io[Len(c.io)].arg = CallKey(c)
WriteAccepted(c) == WriteIssued(c) /\ c.io[Len(c.io)].ok
Warmed(c) ==
  \A t \in {now, now + Ttl(c)} : CachedPayload(storage, c, t) = Fetched(c)

\* C4 as claimed: when a call returns a fetched payload, a get of its key
\* within the TTL returns that payload.
C4_Claimed ==
  \A p \in DOMAIN calls : RemoteHit(calls[p]) => Warmed(calls[p])

\* C4 amended: a call that returns a fetched payload has issued the write of
\* that payload under its key before returning, and when AsyncStorage accepted
\* the write a get of the key within the TTL returns the payload; when
\* AsyncStorage rejected it the call returns the fetched payload all the same.
C4_WriteThrough ==
  \A p \in DOMAIN calls :
     LET c == calls[p]
     IN RemoteHit(c) =>
          /\ WriteIssued(c)
          /\ c.result.value = Returned(c, Fetched(c))
          /\ WriteAccepted(c) => Warmed(c)

\* Witness: getCategories returned the fetched list after an accepted write.
C4_Witness ==
  \E p \in DOMAIN calls :
     /\ calls[p].pc = "done" /\ calls[p].op = "getCategories"
     /\ RemoteHit(calls[p]) /\ WriteAccepted(calls[p])
     /\ calls[p].result.value = NewerCategories

\* C5 as claimed: a call of getCategories, getQuestionnaires or
\* getQuestionnaire whose fetch failed and whose value came from the bundled
\* or the built-in content has written nothing to AsyncStorage.
C5_Ops == {"getCategories", "getQuestionnaires", "getQuestionnaire"}

C5_Claimed ==
  \A p \in DOMAIN calls :
     LET c == calls[p]
     IN ( /\ FulfilledCall(c) /\ c.op \in C5_Ops
          /\ c.tier \in {"bundled", "mock"}
          /\ \E n \in 1..Len(c.trace) : c.trace[n].tier = "remote" /\ ~c.trace[n].hit )
        => \A n \in 1..Len(c.io) : ~(c.io[n].fn = "setItem" /\ c.io[n].ok)

\* The keys each clearing operation is claimed to own, and the keys
\* clearCache owns in the code.
InCacheNamespace(k) == StartsWith(k, CACHE_PREFIX)
InQuestionnaireNamespace(k) == StartsWith(k, QS_CACHE_PREFIX)
InQuestionnaireCache(k) == StartsWith(k, QS_CACHE_PREFIX) \/ k = CATEGORIES_CACHE_KEY

Accepted == \A n \in 1..Len(res'.io) : res'.io[n].ok

ClearsExactly(Owned(_)) ==
  /\ DOMAIN storage' = {k \in DOMAIN storage : ~Owned(k)}
  /\ \A k \in DOMAIN storage' : storage'[k] = storage[k]

ClearsWithin(Owned(_)) ==
  /\ \A k \in DOMAIN storage' : k \in DOMAIN storage /\ storage'[k] = storage[k]
  /\ \A k \in DOMAIN storage : ~Owned(k) => k \in DOMAIN storage'
  /\ Accepted => \A k \in DOMAIN storage' : ~Owned(k)
  /\ ~Accepted => storage' = storage

\* C6 as claimed: clearAll and clearCache remove exactly the keys that carry
\* the cache prefix and leave every other key and its text.
C6_Claimed ==
  [][/\ ClearAllStep => ClearsExactly(InCacheNamespace)
     /\ ClearCacheStep => ClearsExactly(InQuestionnaireNamespace)]_vars

\* C6 amended: clearAll removes only keys that carry its prefix, clearCache
\* only keys that carry its prefix and the key categories_cache; every other
\* key stays with its text; all owned keys are removed when AsyncStorage
\* accepts getAllKeys and multiRemove, and nothing is removed when it rejects
\* one of them.
C6_NamespaceIsolation ==
  [][/\ ClearAllStep => ClearsWithin(InCacheNamespace)
     /\ ClearCacheStep => ClearsWithin(InQuestionnaireCache)]_vars

\* Witness: clearAll has removed a knowledge block entry; the saved journey,
\* the API key, the saved answers and the categories cached by the
\* questionnaire service are in the store.
C6_Witness ==
  /\ res.op = "clearAll"
  /\ Len(res.io) = 2 /\ res.io[2].ok /\ res.io[2].arg # {}
  /\ OtherKeys \subseteq DOMAIN storage
  /\ CATEGORIES_CACHE_KEY \in DOMAIN storage

\* C8 as claimed: the caller can tell a bundled or built-in value from remote
\* or cached data, so two calls of the same method and arguments of which one
\* fell back and the other did not never hand the caller equal results.
IsFallback(tier) == tier \in {"bundled", "mock"}

C8_Claimed ==
  \A p \in DOMAIN calls :
     LET c == calls[p]
     IN (FulfilledCall(c) /\ c.prev # Null /\ c.result = Fulfilled(c.prev.value))
          => (IsFallback(c.tier) <=> IsFallback(c.prev.tier))

\* C9 as claimed: a call that follows, within the TTL, a call of the same
\* method and arguments that was served by the remote or the persistent tier
\* returns the same payload from memory and fetches nothing.
C9_Claimed ==
  \A p \in DOMAIN calls :
     LET c == calls[p]
     IN ( /\ c.pc = "done" /\ c.prev # Null
          /\ c.prev.tier \in {"remote", "persistent"}
          /\ now - c.prev.at <= Ttl(c) )
        => /\ c.result = Fulfilled(c.prev.value)
           /\ c.tier = "memory"
           /\ c.fetches = 0

\* C10: getCategories and getQuestionnaires return a list, never null, the
\* empty list for a category without questionnaires; getQuestionnaire
\* returns null when every data tier missed, and null is no questionnaire.
IsList(value) == "list" \in DOMAIN value
AllQuestionnaires ==
  {Questionnaire(id, rev) : id \in {cicd_pipeline, e2e_testing, non_existent},
                            rev \in RemoteRevs \cup {BundledRev}}

C10_ListOrSentinel ==
  \A p \in DOMAIN calls :
     LET c == calls[p]
     IN c.pc = "done" =>
          /\ c.result.state = "fulfilled"
          /\ c.op \in {"getCategories", "getQuestionnaires"} =>
               /\ c.result.value # Null
               /\ IsList(c.result.value)
          /\ (c.op = "getQuestionnaires" /\ categoryQuestionnaires(c.categoryPath) = <<>>)
               => c.result.value = List(<<>>)
          /\ (c.op = "getQuestionnaire" /\ AllDataTiersMiss(c)) =>
               /\ c.result.value = Null
               /\ Null \notin AllQuestionnaires
          /\ (c.op = "getQuestionnaire" /\ ~AllDataTiersMiss(c)) =>
               c.result.value \in AllQuestionnaires

\* Witness: getQuestionnaires('testing') returned the empty list.
C10_Witness ==
  \E p \in DOMAIN calls :
     /\ calls[p].pc = "done" /\ calls[p].op = "getQuestionnaires"
     /\ calls[p].categoryPath = testing
     /\ calls[p].result = Fulfilled(List(<<>>))

-----------------------------------------------------------------------------
(* Properties of the version comparison, checked under SpecVersion *)

\* The components, from the left, at which two versions differ as numbers.
Differing(v1, v2) == {i \in 1..VERSION_PARTS : v1.nums[i] # v2.nums[i]}
FirstDiffering(v1, v2) ==
  CHOOSE i \in Differing(v1, v2) : \A j \in Differing(v1, v2) : i <= j

\* C11: isNewerVersion(v1, v2) is true iff v1 is the greater, as a number, at
\* the first component at which the two versions differ as numbers, and false
\* when they differ at none; so it is never true in both directions, and for
\* versions that differ it is true in exactly one.
C11_FirstDifference ==
  cmp.op = "isNewerVersion" =>
    LET back == isNewerVersion(cmp.v2.text, cmp.v1.text)
    IN /\ Differing(cmp.v1, cmp.v2) = {} => ~cmp.ret /\ ~back
       /\ Differing(cmp.v1, cmp.v2) # {} =>
            LET i == FirstDiffering(cmp.v1, cmp.v2)
            IN /\ cmp.ret = (cmp.v1.nums[i] > cmp.v2.nums[i])
               /\ back = ~cmp.ret
       /\ cmp.v1 = cmp.v2 => ~cmp.ret

\* Witness: the versions first differ where v1 has 10 and v2 has 9, and
\* isNewerVersion(v1, v2) returned true.
C11_Witness ==
  /\ cmp.op = "isNewerVersion" /\ cmp.ret
  /\ Differing(cmp.v1, cmp.v2) # {}
  /\ cmp.v1.nums[FirstDiffering(cmp.v1, cmp.v2)] = 10
  /\ cmp.v2.nums[FirstDiffering(cmp.v1, cmp.v2)] = 9

Compared(v1, v2) == cmp.op = "isNewerVersion" /\ cmp.v1 = v1 /\ cmp.v2 = v2

\* C12 as claimed: isNewer("2024.12.01.0", "2024.12.15.0") and
\* isNewer("2024.12.15.1", "2024.12.15.0") are true and
\* isNewer("2024.12.15.0", "2024.12.15.0") is false.
C12_Claimed ==
  /\ Compared(V_2024_12_01_0, V_2024_12_15_0) => cmp.ret
  /\ Compared(V_2024_12_15_1, V_2024_12_15_0) => cmp.ret
  /\ Compared(V_2024_12_15_0, V_2024_12_15_0) => ~cmp.ret

\* C12 amended: isNewerVersion("2024.12.01.0", "2024.12.15.0") is false and
\* isNewerVersion("2024.12.15.0", "2024.12.01.0") is true; the other two
\* values are as claimed.
C12_Examples ==
  /\ Compared(V_2024_12_01_0, V_2024_12_15_0) => ~cmp.ret
  /\ Compared(V_2024_12_15_0, V_2024_12_01_0) => cmp.ret
  /\ Compared(V_2024_12_15_1, V_2024_12_15_0) => cmp.ret
  /\ Compared(V_2024_12_15_0, V_2024_12_15_0) => ~cmp.ret

\* Witness: isNewerVersion("2024.12.01.0", "2024.12.15.0") has returned false.
C12_Witness == Compared(V_2024_12_01_0, V_2024_12_15_0) /\ ~cmp.ret

-----------------------------------------------------------------------------
(* Properties of the update service, checked under SpecUpdate *)

CheckReturned == update.pc # "off" /\ update.updateInfo # NotYet

\* The manifest request of the check was answered with a manifest.
ManifestReceived ==
  /\ update.pc # "off" /\ update.manifest # Null
  /\ ~update.manifest.threw /\ update.manifest.ok
  /\ ~response_json(update.manifest).threw
  /\ Field(response_json(update.manifest).value, "version") # Undefined

\* The manifest request of the check failed: network error or non-2xx status.
ManifestFailed ==
  /\ update.pc # "off" /\ update.manifest # Null
  /\ update.manifest.threw \/ ~update.manifest.ok

RemoteVersion == Field(response_json(update.manifest).value, "version")

\* Equal under the component-wise numeric comparison.
SameVersion(v1, v2) == ~isNewerVersion(v1, v2) /\ ~isNewerVersion(v2, v1)

\* C13 (as claimed): with the stored version read and the manifest received,
\* checkForUpdates returns null exactly when the two versions are equal
\* component by component as numbers, and an UpdateInfo with hasUpdate: true
\* otherwise.
C13_Claimed ==
  (CheckReturned /\ ManifestReceived) =>
     LET same == /\ update.currentVersion # Null
                 /\ SameVersion(update.currentVersion.string, RemoteVersion.string)
     IN IF same THEN update.updateInfo = Null
        ELSE /\ update.updateInfo # Null
             /\ update.updateInfo.hasUpdate = TRUE
             /\ update.updateInfo.currentVersion = update.currentVersion
             /\ update.updateInfo.remoteVersion = RemoteVersion

\* C14 (as claimed): checkForUpdates never throws; it returns null when the
\* manifest request fails, and so never reports hasUpdate: true then.
C14_Claimed ==
  CheckReturned =>
     /\ ~update.threw
     /\ ManifestFailed => update.updateInfo = Null

MarkerOf(store) == AsyncStorage_getItem(store, questionnaire_version)
DownloadReturned == update.pc # "off" /\ update.returned
EveryEntityFetched ==
  /\ Len(update.log) = Len(KnownEntities)
  /\ \A n \in 1..Len(KnownEntities) :
       /\ update.log[n].entity = KnownEntities[n]
       /\ update.log[n].data \in QuestionnaireBodies(KnownEntities[n].id)

\* What get of the cache gives for an entity right after the download.
CachedEntity(entity) ==
  CacheService_get(storage, entityKey(entity), now, TRUE, TRUE).ret

\* Every entity in the cache is a whole payload of that entity.
CompleteEntities ==
  \A n \in 1..Len(KnownEntities) :
    \/ CachedEntity(KnownEntities[n]) = Null
    \/ CachedEntity(KnownEntities[n]) \in QuestionnaireBodies(KnownEntities[n].id)

-----------------------------------------------------------------------------
(* Properties of fetchWithRetry, checked under SpecRetry *)

Failed(attempt) == attempt.response.threw \/ ~attempt.response.ok
NonOk(attempt) == ~attempt.response.threw /\ ~attempt.response.ok
LastAttempt == retry.attempts[Len(retry.attempts)]

\* The time between attempt n and the one before it.
DelayBefore(n) == retry.attempts[n].at - retry.attempts[n - 1].at

\* C16 (as claimed): at most 3 attempts; the wait before the second attempt
\* is 1s and the wait before the third is 2s; and when the last attempt
\* failed too the call ends with a network error, not with a response and
\* not with nothing.
C16_Claimed ==
  retry.pc # "idle" =>
     /\ Len(retry.attempts) <= 3
     /\ \A n \in 2..Len(retry.attempts) : DelayBefore(n) = Backoff(n - 2)
     /\ (retry.settled /\ Failed(LastAttempt)) => retry.threw

\* C17 (as claimed): a response with a non-2xx status is the last attempt of
\* the call.
C17_Claimed ==
  retry.pc # "idle" =>
     \A n \in 1..Len(retry.attempts) :
        NonOk(retry.attempts[n]) => n = Len(retry.attempts) /\ retry.settled

-----------------------------------------------------------------------------
(* Termination of the resolvers, checked under SpecLive *)

Running(p) == calls[p].pc \notin {"idle", "done"}

\* C18 (as claimed): every call of a resolver that has started eventually
\* returns a value to its caller, also when the network never answers its
\* request.
C18_Claimed ==
  \A p \in {1} : Running(p) ~> (calls[p].pc = "done" /\ calls[p].result.state = "fulfilled")

-----------------------------------------------------------------------------
(* Properties of concurrent calls, checked under SpecConc *)

\* The entry an accepted setCachedData of the call leaves under its key.
EntryOf(c) == JSON_stringify([data |-> Fetched(c), timestamp |-> c.at])

\* The call found nothing under its key.
FromEmptyCache(c) == Consulted(c, "persistent", FALSE, "empty")

\* Both calls are of the same key, found the cache empty and have settled.
SameKeyPairDone ==
  /\ \A p \in {1, 2} : calls[p].pc = "done" /\ FromEmptyCache(calls[p])
  /\ CallKey(calls[1]) = CallKey(calls[2])

Writers == {p \in {1, 2} : WriteAccepted(calls[p])}

\* A call's accepted write has just been done.
Wrote(p) ==
  /\ calls[p].pc = "store" /\ calls'[p].pc = "done"
  /\ WriteAccepted(calls'[p])

\* C19 (as claimed): after two calls of the same key that both started from
\* an empty cache and both fetched the payload, both have a value and the
\* entry under the key is the entry one of the two wrote; it is never
\* missing.
C19_Claimed ==
  (SameKeyPairDone /\ \A p \in {1, 2} : calls[p].fetches = 1 /\ calls[p].data # Null) =>
     /\ \A p \in {1, 2} : calls[p].result.state = "fulfilled"
     /\ \E p \in {1, 2} :
          /\ WriteIssued(calls[p])
          /\ AsyncStorage_getItem(storage, CallKey(calls[p])) = EntryOf(calls[p])

\* C19: two calls of the same key that both started from an empty cache
\* both settle with a value, a fetched payload being returned as fetched;
\* every write the store accepts replaces the entry under the key by the
\* whole entry of the writing call, so that afterwards the entry is the one
\* of the last call whose write was accepted; it is missing exactly when no
\* write of the two was accepted.
C19_LastWriterWins ==
  /\ [](SameKeyPairDone =>
          /\ \A p \in {1, 2} :
               /\ calls[p].result.state = "fulfilled"
               /\ calls[p].tier = "remote" =>
                    calls[p].result.value = Returned(calls[p], Fetched(calls[p]))
          /\ IF Writers = {}
               THEN CallKey(calls[1]) \notin DOMAIN storage
               ELSE \E p \in Writers :
                      storage[CallKey(calls[p])] = EntryOf(calls[p]))
  /\ [][\A p \in {1, 2} :
          Wrote(p) =>
            /\ storage'[CallKey(calls[p])] = EntryOf(calls'[p])
            /\ \A k \in DOMAIN storage' \ {CallKey(calls[p])} :
                 k \in DOMAIN storage /\ storage'[k] = storage[k]]_vars

\* Both calls fetched, with different payloads, and both writes were
\* accepted; the entry is the one of the second call.
C19_Witness ==
  /\ SameKeyPairDone
  /\ \A p \in {1, 2} : calls[p].fetches = 1 /\ WriteAccepted(calls[p])
  /\ Fetched(calls[1]) # Fetched(calls[2])
  /\ storage[CallKey(calls[2])] = EntryOf(calls[2])

-----------------------------------------------------------------------------
(* Properties of the background update, checked under SpecLaunch *)

\* The update is waiting for its timer, or is in checkForUpdates or in
\* downloadUpdate.
UpdatePending == update.pc \notin {"off", "initialize", "done"}
CheckStarted == update.pc \notin {"off", "initialize", "timer"}

\* C20: initialize() has returned before checkForUpdates starts; and in
\* every state of the update, pending, running or over, a caller can start
\* a call and a call that is under way can take its next step.
C20_NeverBlocks ==
  /\ CheckStarted => update.initialized
  /\ \A p \in DOMAIN calls :
       /\ (calls[p].pc \in {"idle", "done"} /\ started < MaxCalls) =>
            ENABLED CallAtLaunch(p)
       /\ Running(p) => ENABLED ResolverStep(p)

\* downloadUpdate is between two entities; a call that started after the
\* update got there has returned a fetched payload.
C20_Witness ==
  /\ update.pc = "write" /\ update.i = 2
  /\ started > update.since
  /\ calls[1].pc = "done" /\ calls[1].tier = "remote"

-----------------------------------------------------------------------------
(* Properties of the storage keys, checked under SpecKeys *)

\* C21 (as claimed): two different entities never have the same key; the key
\* of a questionnaire list and the key of a single questionnaire never
\* coincide, and no cache key is a key of saved answers.
C21_Claimed ==
  cmp.op = "storageKey" => (cmp.e1 # cmp.e2 => cmp.key1 # cmp.key2)

-----------------------------------------------------------------------------
(* clearAll on a store without cache entries, checked under SpecCache *)

NoCacheKey(store) == \A k \in DOMAIN store : ~StartsWith(k, CACHE_PREFIX)

\* C24 (as claimed): clearAll on a store none of whose keys has the cache
\* prefix makes no multiRemove call.
C24_Claimed ==
  [][(ClearAllStep /\ NoCacheKey(storage)) =>
       \A n \in 1..Len(res'.io) : res'.io[n].fn # "multiRemove"]_vars

-----------------------------------------------------------------------------
(* The memory tier of KnowledgeService, checked under Spec *)

\* fetchKnowledgeBlock(blockId) has just been called in slot p.
BlockCalled(p) ==
  /\ started' = started + 1
  /\ calls'[p] # calls[p]
  /\ calls'[p].op = "fetchKnowledgeBlock"

FromMemory(c) == c.pc = "done" /\ c.tier = "memory"

\* The operation right before was a clearAll that went through.
JustCleared ==
  res.op = "clearAll" /\ \A n \in 1..Len(res.io) : res.io[n].ok

\* C25 (as claimed): a block that is in the memory map is returned from it,
\* whatever the age of the persistent entry; but right after the cache has
\* been cleared the call does not return the value of the memory map: it
\* goes on to the lower tiers.
C25_Claimed ==
  [][\A p \in DOMAIN calls :
       BlockCalled(p) =>
         IF JustCleared THEN ~FromMemory(calls'[p])
         ELSE calls'[p].id \in DOMAIN memoryCache =>
                /\ FromMemory(calls'[p])
                /\ calls'[p].result = Fulfilled(memoryCache[calls'[p].id])]_vars

-----------------------------------------------------------------------------
(* The bundled tier of getQuestionnaires, checked under Spec *)

\* C26 (as claimed): in getQuestionnaires every remote fetch that gave no
\* payload, by a thrown error or by a non-2xx status, is followed by the
\* look into the bundled assets, and a bundled copy that is found is in the
\* list.
C26_Claimed ==
  \A p \in DOMAIN calls :
     LET c == calls[p]
     IN (c.pc = "done" /\ c.op = "getQuestionnaires") =>
          \A n \in 1..Len(c.trace) :
             (c.trace[n].tier = "remote" /\ ~c.trace[n].hit) =>
                /\ n < Len(c.trace)
                /\ c.trace[n + 1].tier = "bundled"
                /\ c.trace[n + 1].hit =>
                     \E m \in 1..Len(c.from) : c.from[m] = "bundled"

-----------------------------------------------------------------------------
(* The built-in value leaves no entry, checked under Spec *)

ReturnedMock(c) ==
  /\ c.pc = "done" /\ c.tier = "mock"
  /\ c.op \in {"fetchKnowledgeBlock", "getCategories"}

ConsultedTier(c, tier) == \E n \in 1..Len(c.trace) : c.trace[n].tier = tier

-----------------------------------------------------------------------------
(* A downloaded update is not offered again, checked under SpecUpdate *)

\* The launch before applied an update, and the manifest is still the one
\* that launch received and loaded.
UnchangedManifest ==
  /\ update.pc # "off" /\ update.last # Null
  /\ update.last.downloaded
  /\ update.manifest # Null
  /\ update.manifest = update.last.manifest
  /\ response_json(update.manifest).value = update.last.loaded

-----------------------------------------------------------------------------
(* The eviction of an expired entry against a concurrent set, checked under
   SpecEvict *)

BothComplete == Len(calls) = 2 /\ calls[1].pc = "done" /\ calls[2].pc = "done"

\* get read an entry that had expired, and set stored its entry.
ReadExpired ==
  /\ calls[1].read # Null
  /\ CacheService_isExpired(calls[1].read, calls[1].readAt)

\* C27 (as claimed): in every interleaving of a get(k) that has read an
\* expired entry with a set(k), the entry stored by set(k) is still under
\* the key when both calls have completed.
C27_Claimed ==
  (BothComplete /\ ReadExpired /\ calls[2].wrote # Null)
    => /\ StoredAs(calls[2].key) \in DOMAIN storage
       /\ storage[StoredAs(calls[2].key)] = JSON_stringify(calls[2].wrote)

-----------------------------------------------------------------------------
(* Properties of useQuestionnaireStore, checked under SpecStore *)

Asked(history) == {history[i] : i \in 1..Len(history)}

\* C22 (as claimed): goBack removes the last question of the history and its
\* answer, and leaves the earlier history entries, their answers, the context
\* and the resources as they were; on an empty history it changes nothing.
C22_Claimed ==
  [][goBack =>
       LET history == stores.questionnaireHistory
       IN IF Len(history) = 0 THEN stores' = stores
          ELSE /\ stores'.questionnaireHistory = SubSeq(history, 1, Len(history) - 1)
               /\ history[Len(history)] \notin DOMAIN stores'.answers
               /\ \A i \in 1..(Len(history) - 1) :
                     /\ history[i] \in DOMAIN stores'.answers
                     /\ stores'.answers[history[i]] = stores.answers[history[i]]
               /\ stores'.context = stores.context
               /\ stores'.resources = stores.resources]_vars

\* C28 (as claimed): every question of questionnaireHistory has an entry in
\* answers, and every key of answers occurs in questionnaireHistory.
C28_Claimed ==
  /\ Asked(stores.questionnaireHistory) \subseteq DOMAIN stores.answers
  /\ DOMAIN stores.answers \subseteq Asked(stores.questionnaireHistory)

-----------------------------------------------------------------------------
(* Properties of useChatHistoryStore, checked under SpecChat *)

\* result is the last MAX_MESSAGES_PER_CHAT messages of source (all of them
\* if there are fewer), in the order of source.
MostRecent(result, source) ==
  /\ Len(result) = IF Len(source) < MAX_MESSAGES_PER_CHAT
                     THEN Len(source) ELSE MAX_MESSAGES_PER_CHAT
  /\ \A i \in 1..Len(result) : result[i] = source[Len(source) - Len(result) + i]

\* The lists of the keys other than key are the same before and after.
OthersUnchanged(key) ==
  /\ DOMAIN stores'.messages \ {key} = DOMAIN stores.messages \ {key}
  /\ \A k \in DOMAIN stores.messages \ {key} : stores'.messages[k] = stores.messages[k]

\* C23: the list under every chat key holds at most 100 messages; saveMessages
\* and appendMessage leave under their key the most recent messages in their
\* original order; and every operation on one key leaves the lists of the
\* other keys unchanged.
C23_CappedPerKey ==
  /\ [](\A k \in DOMAIN stores.messages :
           Len(stores.messages[k]) <= MAX_MESSAGES_PER_CHAT)
  /\ [][\A key \in ChatKeys :
          /\ \A n \in SavedLengths :
                saveMessages(key, Conversation(n)) =>
                  /\ key \in DOMAIN stores'.messages
                  /\ MostRecent(stores'.messages[key], Conversation(n))
                  /\ OthersUnchanged(key)
          /\ appendMessage(key, NextMessage(stores.messages, key)) =>
                /\ key \in DOMAIN stores'.messages
                /\ MostRecent(stores'.messages[key],
                              Existing(stores.messages, key)
                                \o <<NextMessage(stores.messages, key)>>)
                /\ OthersUnchanged(key)
          /\ clearMessages(key) =>
                /\ key \notin DOMAIN stores'.messages
                /\ OthersUnchanged(key)]_vars

\* A chat that has dropped its oldest messages beside a shorter one.
C23_Witness ==
  \E k \in DOMAIN stores.messages, other \in DOMAIN stores.messages :
     /\ k # other
     /\ Len(stores.messages[k]) = MAX_MESSAGES_PER_CHAT
     /\ stores.messages[k][1].id > 1
     /\ Len(stores.messages[other]) \in 1..(MAX_MESSAGES_PER_CHAT - 1)

====
